---- MODULE Spec2Model ----
(***************************************************************************)
(* Model of main.py, the ESP32 coffee-controller firmware.                 *)
(*                                                                         *)
(* Part 1: the UART exchange (send_command), the status parser             *)
(* (parse_status) and the two HTTP routes that call them (GET /status and  *)
(* POST /cmd), running against a remote controller that emits lines on the *)
(* same UART whenever it likes.                                            *)
(*                                                                         *)
(* Text is a sequence of one-character strings, so that strip, startswith, *)
(* split, replace, float() and int() are computed, not assumed.  A byte    *)
(* that is not valid UTF-8 is the token "xFF".                             *)
(*                                                                         *)
(* Part 2: the schedule engine (is_dst, get_local_hour, is_wifi_hours).    *)
(* Part 3: the connectivity manager (wait_for_wifi_ready,                  *)
(* connect_wifi_robust, disconnect_wifi) and the radio it drives.          *)
(* Part 4: the web server loop (web_server_scheduled).  A request is text   *)
(* too: "\r", "\n" and " " are characters of their own and every word      *)
(* between them is one token.  The route's call of send_command is taken   *)
(* as one step here, with any result part 1 can produce.                   *)
(* Part 5: the boot sequence of main, which calls parts 3 and 4; the run   *)
(* of the server is one step here.                                         *)
(* Part 6: send_command against a remote that streams and that answers     *)
(* each command once, late or not.                                         *)
(* Part 7: main as a whole, the boot sequence and the monitoring loop,     *)
(* with connect_wifi_robust and sync_time taken by what they return.       *)
(* Each part has its own specification; the variables of the other parts   *)
(* stay as they are while it runs.                                         *)
(***************************************************************************)
EXTENDS Integers, Sequences, FiniteSets, TLC

\* ------------------------------------------------------------------ bounds
\* Lines the remote controller emits during one run; in part 6, during
\* one second.
MaxEmit == 3
\* Years of dates the schedule engine is evaluated on, from FirstYear on.
MaxYears == 8

\* The counts of loop rounds begun out of the window or without WiFi, and
\* of hours gone by since the last resync, stop growing here.
IterCap == 2

\* Lines the UART receive buffer holds.
RxLines == 2

\* ------------------------------------------------------- program constants
\* send_command(cmd, timeout=2.0, ...); time.time() counts whole seconds.
Timeout == 2
WIFI_START_HOUR == 5
WIFI_END_HOUR == 8
BASE_TIMEZONE_OFFSET == -8
WIFI_CONNECT_RETRIES == 10
WIFI_CONNECT_TIMEOUT == 10
\* max_wait of wait_for_wifi_ready, in seconds.
max_wait == 30

\* --------------------------------------------------------------- wire data
\* Raw lines as the remote controller puts them on the wire.
L_OK == <<"<", "<", "O", "K", "\n">>
L_ERROR == <<" ", "<", "<", "E", "R", "R", "O", "R", " ", "b", "a", "d", " ", "t", "e", "m", "p", "\r", "\n">>
L_STATUS5 == <<">", ">", "S", "T", "A", "T", "U", "S", ",", "9", "3", ".", "4", ",", "1", "0", "8", ".", "0", ",", "4", "2", ",", "h", "e", "a", "t", "i", "n", "g", "\n">>
L_STATUS6 == <<">", ">", "S", "T", "A", "T", "U", "S", ",", "1", ",", "9", "3", ".", "4", ",", "1", "0", "8", ".", "0", ",", "4", "2", ",", "h", "e", "a", "t", "i", "n", "g", "\n">>
L_PLAIN5 == <<"S", "T", "A", "T", "U", "S", ",", "9", "1", ",", "1", "0", "8", ",", "7", ",", "o", "n", "\n">>
L_CSV == <<"9", "3", ".", "4", ",", "4", "2", ",", "1", "0", "8", ".", "0", "\n">>
L_TELEM == <<"T", ",", "9", "1", ".", "2", ",", "0", "\n">>
L_ECHO == <<">", ">", "s", "t", "a", "t", "u", "s", "\n">>
L_BAD == <<"T", ",", "xFF", "\n">>

RemoteLines == {L_OK, L_ERROR, L_STATUS5, L_STATUS6, L_PLAIN5, L_CSV, L_TELEM, L_ECHO, L_BAD}

\* Command texts: the literal of GET /status and request bodies of POST /cmd.
C_STATUS == <<"s", "t", "a", "t", "u", "s">>
C_REG == <<" ", "r", "e", "g", " ", "o", "n", "\n">>
C_BLANK == <<" ", "\r", "\n">>

CmdBodies == {C_REG, C_BLANK, <<>>}

\* ------------------------------------------------------------ str methods
Whitespace == {" ", "\t", "\n", "\r"}

RECURSIVE lstrip(_)
lstrip(s) ==
    IF s # <<>> /\ Head(s) \in Whitespace THEN lstrip(Tail(s)) ELSE s

RECURSIVE rstrip(_)
rstrip(s) ==
    IF s # <<>> /\ s[Len(s)] \in Whitespace
    THEN rstrip(SubSeq(s, 1, Len(s) - 1))
    ELSE s

\* str.strip()
strip(s) == rstrip(lstrip(s))

\* str.startswith(p)
startswith(s, p) == Len(s) >= Len(p) /\ SubSeq(s, 1, Len(p)) = p

\* str.split(c) for a one-character separator: always at least one field.
RECURSIVE split(_, _)
split(s, c) ==
    IF \A i \in 1..Len(s) : s[i] # c
    THEN <<s>>
    ELSE LET i == CHOOSE k \in 1..Len(s) : s[k] = c /\ \A j \in 1..(k - 1) : s[j] # c
         IN  <<SubSeq(s, 1, i - 1)>> \o split(SubSeq(s, i + 1, Len(s)), c)

\* str.replace('>>', ''): every non-overlapping occurrence, left to right.
RECURSIVE replace_ack(_)
replace_ack(s) ==
    IF Len(s) < 2 THEN s
    ELSE IF s[1] = ">" /\ s[2] = ">" THEN replace_ack(SubSeq(s, 3, Len(s)))
    ELSE <<s[1]>> \o replace_ack(Tail(s))

\* A decode that never fails (errors='ignore').
decodable_lenient(raw) == TRUE

\* bytes.decode('utf-8'): fails on any byte that is not valid UTF-8.
decodable(raw) == \A i \in 1..Len(raw) : raw[i] # "xFF"

\* (cmd_clean + '\n').encode('utf-8')
encode(cmd_clean) == cmd_clean \o <<"\n">>

\* ------------------------------------------------------- float() and int()
DigitChars == <<"0", "1", "2", "3", "4", "5", "6", "7", "8", "9">>

IsDigit(c) == \E d \in 1..10 : DigitChars[d] = c

DigitVal(c) == (CHOOSE d \in 1..10 : DigitChars[d] = c) - 1

AllDigits(s) == \A i \in 1..Len(s) : IsDigit(s[i])

RECURSIVE DigitsVal(_)
DigitsVal(s) ==
    IF s = <<>> THEN 0
    ELSE 10 * DigitsVal(SubSeq(s, 1, Len(s) - 1)) + DigitVal(s[Len(s)])

RECURSIVE DropTrailingZeros(_)
DropTrailingZeros(s) ==
    IF s # <<>> /\ s[Len(s)] = "0"
    THEN DropTrailingZeros(SubSeq(s, 1, Len(s) - 1))
    ELSE s

Unsigned(s) == IF s # <<>> /\ Head(s) \in {"+", "-"} THEN Tail(s) ELSE s

Sign(s) == IF s # <<>> /\ Head(s) = "-" THEN -1 ELSE 1

\* int(text): surrounding whitespace, an optional sign, decimal digits.
\* [ok |-> FALSE] is ValueError.
py_int(text) ==
    LET t == strip(text)
        u == Unsigned(t)
    IN  IF u # <<>> /\ AllDigits(u)
        THEN [ok |-> TRUE, val |-> <<"int", Sign(t) * DigitsVal(u)>>]
        ELSE [ok |-> FALSE]

\* float(text) for decimal notation: surrounding whitespace, an optional
\* sign, digits with at most one point and at least one digit.  The value
\* is exact: <<"float", m, k>> is m / 10^k with no trailing zero counted.
\* [ok |-> FALSE] is ValueError.
py_float(text) ==
    LET t == strip(text)
        u == Unsigned(t)
        f == split(u, ".")
        ip == f[1]
        fp == IF Len(f) = 2 THEN DropTrailingZeros(f[2]) ELSE <<>>
    IN  IF /\ Len(f) <= 2
           /\ AllDigits(ip)
           /\ (Len(f) = 2 => AllDigits(f[2]))
           /\ Len(ip) + (IF Len(f) = 2 THEN Len(f[2]) ELSE 0) > 0
        THEN [ok |-> TRUE, val |-> <<"float", Sign(t) * DigitsVal(ip \o fp), Len(fp)>>]
        ELSE [ok |-> FALSE]

\* ------------------------------------------------------------ JSON values
Null == <<"null">>

Str(chars) == <<"str", chars>>

S_UNKNOWN == <<"u", "n", "k", "n", "o", "w", "n">>

\* Python's None, as the value of a dict-or-None result.
None == [kind |-> "None"]

\* ------------------------------------------------------------ parse_status
\* legacy_scan reading an <id> field after STATUS: every field one further on.
\* parts[5] of a five-field line is an IndexError, caught like ValueError.
RECURSIVE legacy_scan_with_id(_)
legacy_scan_with_id(lines) ==
    IF lines = <<>> THEN None
    ELSE LET line == Head(lines)
             parts == split(replace_ack(line), ",")
         IN  IF /\ (startswith(line, <<">", ">", "S", "T", "A", "T", "U", "S">>)
                    \/ startswith(line, <<"S", "T", "A", "T", "U", "S">>))
                /\ Len(parts) >= 6
                /\ py_float(parts[3]).ok
                /\ py_float(parts[4]).ok
                /\ py_int(parts[5]).ok
             THEN [kind |-> "dict",
                   temperature |-> py_float(parts[3]).val,
                   setpoint |-> py_float(parts[4]).val,
                   duty_cycle |-> py_int(parts[5]).val,
                   state |-> Str(parts[6]),
                   raw |-> Str(line)]
             ELSE legacy_scan_with_id(Tail(lines))

\* for line in response_lines: the first line with the STATUS prefix whose
\* fields convert is returned; a ValueError is caught inside the loop, which
\* goes on with the next line.
RECURSIVE legacy_scan(_)
legacy_scan(lines) ==
    IF lines = <<>> THEN None
    ELSE LET line == Head(lines)
             parts == split(replace_ack(line), ",")
         IN  IF /\ (startswith(line, <<">", ">", "S", "T", "A", "T", "U", "S">>)
                    \/ startswith(line, <<"S", "T", "A", "T", "U", "S">>))
                /\ Len(parts) >= 5
                /\ py_float(parts[2]).ok
                /\ py_float(parts[3]).ok
                /\ py_int(parts[4]).ok
             THEN [kind |-> "dict",
                   temperature |-> py_float(parts[2]).val,
                   setpoint |-> py_float(parts[3]).val,
                   duty_cycle |-> py_int(parts[4]).val,
                   state |-> Str(parts[5]),
                   raw |-> Str(line)]
             ELSE legacy_scan(Tail(lines))

\* The fallback: the last line of the list as temp,duty,setpoint.
csv_last(lines) ==
    LET line == lines[Len(lines)]
        parts == split(line, ",")
    IN  IF /\ Len(parts) >= 3
           /\ py_float(parts[1]).ok
           /\ py_int(parts[2]).ok
           /\ py_float(parts[3]).ok
        THEN [kind |-> "dict",
              temperature |-> py_float(parts[1]).val,
              duty_cycle |-> py_int(parts[2]).val,
              setpoint |-> py_float(parts[3]).val,
              state |-> Str(S_UNKNOWN),
              raw |-> Str(line)]
        ELSE None

\* parse_status(response_dict), given response_dict['response'].
parse_status(response) ==
    IF response = <<>> THEN None
    ELSE IF legacy_scan(response) # None THEN legacy_scan(response)
    ELSE csv_last(response)

\* ------------------------------------------------- send_command: the result
NoError == [kind |-> "None"]

Msg(m) == [kind |-> "msg", msg |-> m]

\* result = {'success': False, 'response': [], 'error': None}
InitialResult == [success |-> FALSE, response |-> <<>>, error |-> NoError]

\* A failure path returning result as it was initialised.
Failed_without_text(m) == InitialResult

\* result['error'] = ...; return result
Failed(m) == [InitialResult EXCEPT !.error = Msg(m)]

IsCompletion(decoded) ==
    \/ startswith(decoded, <<"<", "<", "O", "K">>)
    \/ startswith(decoded, <<"<", "<", "E", "R", "R", "O", "R">>)

IsCommandResponse(line) ==
    \/ startswith(line, <<"<", "<">>)
    \/ startswith(line, <<">", ">">>)

\* [line for line in response_lines if startswith('<<') or startswith('>>')]
RECURSIVE command_response_lines(_)
command_response_lines(lines) ==
    IF lines = <<>> THEN <<>>
    ELSE IF IsCommandResponse(Head(lines))
    THEN <<Head(lines)>> \o command_response_lines(Tail(lines))
    ELSE command_response_lines(Tail(lines))

\* for line in command_response_lines: the first '<<ERROR' line, if any.
RECURSIVE first_error(_)
first_error(lines) ==
    IF lines = <<>> THEN <<>>
    ELSE IF startswith(Head(lines), <<"<", "<", "E", "R", "R", "O", "R">>)
    THEN <<Head(lines)>>
    ELSE first_error(Tail(lines))

\* check_results with the '<<ERROR' scan leaving success as it was.
check_results_keep_success(lines, found) ==
    IF lines = <<>> THEN Failed("No response received")
    ELSE LET crl == command_response_lines(lines)
             err == first_error(crl)
         IN  [success |-> found,
              response |-> IF crl # <<>> THEN crl ELSE lines,
              error |-> IF err # <<>> THEN [kind |-> "line", line |-> err[1]]
                        ELSE IF found THEN NoError
                        ELSE Msg("Response incomplete (timeout)")]

\* check_results returning the filtered list even when it is empty.
check_results_no_fallback(lines, found) ==
    IF lines = <<>> THEN Failed("No response received")
    ELSE LET crl == command_response_lines(lines)
             err == first_error(crl)
         IN  [success |-> found /\ err = <<>>,
              response |-> crl,
              error |-> IF err # <<>> THEN [kind |-> "line", line |-> err[1]]
                        ELSE IF found THEN NoError
                        ELSE Msg("Response incomplete (timeout)")]

\* check_results with the '<<ERROR' scan clearing success but keeping the error.
check_results_keep_error(lines, found) ==
    IF lines = <<>> THEN Failed("No response received")
    ELSE LET crl == command_response_lines(lines)
             err == first_error(crl)
         IN  [success |-> found /\ err = <<>>,
              response |-> IF crl # <<>> THEN crl ELSE lines,
              error |-> IF found THEN NoError
                        ELSE Msg("Response incomplete (timeout)")]

\* check_results without the "if not response_lines" early return.
check_results_no_empty_case(lines, found) ==
    LET crl == command_response_lines(lines)
        err == first_error(crl)
    IN  [success |-> found /\ err = <<>>,
         response |-> IF crl # <<>> THEN crl ELSE lines,
         error |-> IF err # <<>> THEN [kind |-> "line", line |-> err[1]]
                   ELSE IF found THEN NoError
                   ELSE Msg("Response incomplete (timeout)")]

\* "Check results": everything after the read loop.
check_results(lines, found) ==
    IF lines = <<>> THEN Failed("No response received")
    ELSE LET crl == command_response_lines(lines)
             err == first_error(crl)
         IN  [success |-> found /\ err = <<>>,
              response |-> IF crl # <<>> THEN crl ELSE lines,
              error |-> IF err # <<>> THEN [kind |-> "line", line |-> err[1]]
                        ELSE IF found THEN NoError
                        ELSE Msg("Response incomplete (timeout)")]

\* ---------------------------------------------------- the HTTP route bodies
\* GET /status: json.dumps(status if status else {...defaults...})
status_body(res) ==
    LET status == parse_status(res.response)
    IN  IF status # None THEN status
        ELSE [kind |-> "dict",
              temperature |-> Null,
              setpoint |-> <<"int", 0>>,
              duty_cycle |-> <<"int", 0>>,
              state |-> Str(S_UNKNOWN)]

\* POST /cmd: json.dumps({'success': ..., 'response': ...})
cmd_body(res) == [kind |-> "dict", success |-> res.success, response |-> res.response]

render(rt, res) == IF rt = "GET /status" THEN status_body(res) ELSE cmd_body(res)

\* =================================================================== state
VARIABLES
    pc,                \* where send_command is: idle, flush, write, read, done
    route,             \* the HTTP route that made the call
    cmd_clean,         \* cmd.strip()
    rxbuf,             \* the UART receive buffer: lines not yet read
    tx,                \* bytes this call put on the UART
    elapsed,           \* time.time() - start_time, in whole seconds
    response_lines,    \* decoded lines accumulated by the read loop
    found_completion,
    result,            \* the dict send_command returns
    reply,             \* the JSON body the route sends
    emitted,           \* lines the remote controller has emitted so far
    consumed,          \* history: the buffer entries uart.readline() returned in this call
    flushed,           \* history: uart.read() was called in this call
    staleDropped,      \* history: uart.read() discarded a line buffered before this call
    bytes_written      \* what uart.write() reported; -1 before the write

vars == <<pc, route, cmd_clean, rxbuf, tx, elapsed, response_lines, found_completion,
          result, reply, emitted, consumed, flushed, staleDropped, bytes_written>>

\* The schedule engine: the configured window and the RTC, which keeps UTC.
VARIABLES
    cfg_start,         \* WIFI_START_HOUR as configured
    cfg_end,           \* WIFI_END_HOUR as configured
    year, month, day,  \* time.localtime()[0..2]
    utc_hour,          \* time.localtime()[3]
    sched              \* what the schedule functions returned when last evaluated

schedVars == <<cfg_start, cfg_end, year, month, day, utc_hour, sched>>

\* The connectivity manager and the radio.
VARIABLES
    wlan,              \* the station interface: [active, status]
    network,           \* which STAT_ constants the platform's network module has
    w_pc,              \* where connect_wifi_robust is, "idle" outside a call
    attempt,           \* the for loop's index
    timeout,           \* polls left in the current attempt
    w_elapsed,         \* time.time() - start_time in wait_for_wifi_ready
    w_result,          \* what connect_wifi_robust returned last
    w_log,             \* history of the current call of connect_wifi_robust
    w_last,            \* the function called last
    w_before           \* the radio when disconnect_wifi was called last

wifiVars == <<wlan, network, w_pc, attempt, timeout, w_elapsed, w_result,
              w_log, w_last, w_before>>

\* The web server loop.
VARIABLES
    s_pc,              \* where web_server_scheduled is, "stopped" outside it
    s_cl,              \* cl: "None" or an open client socket
    s_request,         \* request, decoded
    s_conn,            \* history of the connection of this round of the loop
    s_log              \* history of the loop

serverVars == <<s_pc, s_cl, s_request, s_conn, s_log>>

\* main.
VARIABLES
    b_pc,              \* where main is, "off" when it does not run
    time_synced,       \* time_synced
    wifi_active,       \* wifi_active
    b_log              \* history of the boot sequence

bootVars == <<b_pc, time_synced, wifi_active, b_log>>

\* The exchanges on the serial link, seen from the remote controller.
VARIABLES
    owed               \* history: which commands the remote has yet to answer

exchangeVars == <<owed>>

allVars == <<vars, schedVars, wifiVars, serverVars, bootVars, exchangeVars>>

Routes == {"GET /status", "POST /cmd"}

NoReply == [kind |-> "None"]

\* No command is waiting for its answer: old is a command of an earlier
\* call of send_command, cur the command of the call now running.
NothingOwed == [old |-> FALSE, cur |-> FALSE]

SerialInit ==
    /\ owed = NothingOwed
    /\ pc = "idle"
    /\ route = "GET /status"
    /\ cmd_clean = <<>>
    /\ rxbuf = <<>>
    /\ tx = <<>>
    /\ elapsed = 0
    /\ response_lines = <<>>
    /\ found_completion = FALSE
    /\ result = InitialResult
    /\ reply = NoReply
    /\ emitted = 0
    /\ consumed = <<>>
    /\ flushed = FALSE
    /\ staleDropped = FALSE
    /\ bytes_written = -1

\* ------------------------------------------------------ the remote controller
\* The remote controller runs on its own: it puts a line on the UART at any
\* moment.  stale (history) tells whether the line was already in the buffer
\* when the call of send_command now running began.
RemoteEmit ==
    /\ emitted < MaxEmit
    /\ \E raw \in RemoteLines :
           rxbuf' = Append(rxbuf, [raw |-> raw, stale |-> FALSE, late |-> FALSE])
    /\ emitted' = emitted + 1
    /\ UNCHANGED <<pc, route, cmd_clean, tx, elapsed, response_lines, found_completion,
                   result, reply, consumed, flushed, staleDropped, bytes_written>>

\* ---------------------------------------------------------------- send_command
\* return result: the route renders its body from it.
Return(res) ==
    /\ result' = res
    /\ reply' = render(route, res)
    /\ pc' = "done"

\* The emptiness test gone: every command is sent.
IsEmptyCommand_never(c) == FALSE

\* if not cmd_clean
IsEmptyCommand(c) == c = <<>>

\* A route calls send_command: GET /status with 'status', POST /cmd with the
\* stripped request body.  An empty command returns at once.
SendCommand ==
    /\ pc \in {"idle", "done"}
    /\ \E rt \in Routes, body \in CmdBodies :
           LET cmd == IF rt = "GET /status" THEN C_STATUS ELSE strip(body)
           IN  /\ route' = rt
               /\ cmd_clean' = strip(cmd)
               /\ IF IsEmptyCommand(strip(cmd))
                  THEN /\ result' = Failed("Empty command")
                       /\ reply' = render(rt, Failed("Empty command"))
                       /\ pc' = "done"
                  ELSE /\ result' = InitialResult
                       /\ reply' = NoReply
                       /\ pc' = "flush"
    /\ tx' = <<>>
    /\ elapsed' = 0
    /\ response_lines' = <<>>
    /\ found_completion' = FALSE
    /\ consumed' = <<>>
    /\ flushed' = FALSE
    /\ staleDropped' = FALSE
    /\ bytes_written' = -1
    /\ rxbuf' = [i \in 1..Len(rxbuf) |-> [rxbuf[i] EXCEPT !.stale = TRUE]]
    /\ UNCHANGED emitted

\* What uart.read() leaves in the buffer: it takes all that is there.
uart_read(buf) == <<>>

\* while uart.any(): uart.read()
FlushRead ==
    /\ pc = "flush"
    /\ rxbuf # <<>>
    /\ rxbuf' = uart_read(rxbuf)
    /\ flushed' = TRUE
    /\ staleDropped' = (staleDropped \/ \E i \in 1..Len(rxbuf) : rxbuf[i].stale)
    /\ UNCHANGED <<pc, route, cmd_clean, tx, elapsed, response_lines, found_completion,
                   result, reply, emitted, consumed, bytes_written>>

\* send_command without the flush loop: straight on to the write.
FlushDone_without_flush ==
    /\ pc = "flush"
    /\ pc' = "write"
    /\ UNCHANGED <<route, cmd_clean, rxbuf, tx, elapsed, response_lines, found_completion,
                   result, reply, emitted, consumed, flushed, staleDropped, bytes_written>>

\* uart.any() is 0: the flush loop ends.
FlushDone ==
    /\ pc = "flush"
    /\ rxbuf = <<>>
    /\ pc' = "write"
    /\ UNCHANGED <<route, cmd_clean, rxbuf, tx, elapsed, response_lines, found_completion,
                   result, reply, emitted, consumed, flushed, staleDropped, bytes_written>>

\* The write check catching only a write of nothing.
write_incomplete_only_zero(n, cmd_bytes) == n = 0

\* if bytes_written != len(cmd_bytes)
write_incomplete(n, cmd_bytes) == n # Len(cmd_bytes)

\* send_command writing first and flushing afterwards.
UartWrite_then_flush ==
    /\ pc = "write"
    /\ bytes_written' = Len(encode(cmd_clean))
    /\ tx' = encode(cmd_clean)
    /\ pc' = IF bytes_written = -1 THEN "flush" ELSE "read"
    /\ elapsed' = 0
    /\ response_lines' = <<>>
    /\ found_completion' = FALSE
    /\ UNCHANGED <<route, cmd_clean, rxbuf, emitted, consumed, flushed, staleDropped,
                   result, reply>>

\* bytes_written = uart.write(cmd_bytes): all of it, or less.
UartWrite ==
    /\ pc = "write"
    /\ LET cmd_bytes == encode(cmd_clean)
       IN  \E n \in {0, Len(cmd_bytes) - 1, Len(cmd_bytes)} :
               /\ bytes_written' = n
               /\ tx' = SubSeq(cmd_bytes, 1, n)
               /\ IF write_incomplete(n, cmd_bytes)
                  THEN Return(Failed("Write incomplete"))
                  ELSE /\ pc' = "read"
                       /\ UNCHANGED <<result, reply>>
    /\ elapsed' = 0
    /\ response_lines' = <<>>
    /\ found_completion' = FALSE
    /\ UNCHANGED <<route, cmd_clean, rxbuf, emitted, consumed, flushed, staleDropped>>

\* One turn of the read loop with data waiting: readline, decode, strip, append,
\* and leave the loop on a completion marker.
ReadLine ==
    /\ pc = "read"
    /\ elapsed < Timeout
    /\ rxbuf # <<>>
    /\ rxbuf' = Tail(rxbuf)
    /\ consumed' = Append(consumed, Head(rxbuf))
    /\ LET line == Head(rxbuf).raw
           decoded == strip(line)
       IN  IF ~decodable(line)
           THEN /\ Return(Failed("Decode error"))
                /\ UNCHANGED <<response_lines, found_completion>>
           ELSE /\ response_lines' = Append(response_lines, decoded)
                /\ IF IsCompletion(decoded)
                   THEN /\ found_completion' = TRUE
                        /\ Return(check_results(Append(response_lines, decoded), TRUE))
                   ELSE UNCHANGED <<found_completion, result, reply, pc>>
    /\ UNCHANGED <<route, cmd_clean, tx, elapsed, emitted, flushed, staleDropped, bytes_written>>

\* uart.readline() raises: except Exception -> 'Read error'.
ReadError ==
    /\ pc = "read"
    /\ elapsed < Timeout
    /\ rxbuf # <<>>
    /\ Return(Failed("Read error"))
    /\ UNCHANGED <<route, cmd_clean, rxbuf, tx, elapsed, response_lines, found_completion,
                   emitted, consumed, flushed, staleDropped, bytes_written>>

\* The clock advances while the read loop polls.
Tick ==
    /\ pc = "read"
    /\ elapsed < Timeout
    /\ elapsed' = elapsed + 1
    /\ UNCHANGED <<pc, route, cmd_clean, rxbuf, tx, response_lines, found_completion,
                   result, reply, emitted, consumed, flushed, staleDropped, bytes_written>>

\* time.time() - start_time < timeout is false: the loop ends without a marker.
ReadTimeout ==
    /\ pc = "read"
    /\ elapsed >= Timeout
    /\ Return(check_results(response_lines, found_completion))
    /\ UNCHANGED <<route, cmd_clean, rxbuf, tx, elapsed, response_lines, found_completion,
                   emitted, consumed, flushed, staleDropped, bytes_written>>

\* Any other exception inside the try block: the outer except.
UartException ==
    /\ pc \in {"flush", "write", "read"}
    /\ Return(Failed("UART exception"))
    /\ UNCHANGED <<route, cmd_clean, rxbuf, tx, elapsed, response_lines, found_completion,
                   emitted, consumed, flushed, staleDropped, bytes_written>>

\* What is not the serial link's.
serialFrame == <<schedVars, wifiVars, serverVars, bootVars, exchangeVars>>

SerialNext ==
    \/ RemoteEmit /\ UNCHANGED serialFrame
    \/ SendCommand /\ UNCHANGED serialFrame
    \/ FlushRead /\ UNCHANGED serialFrame
    \/ FlushDone /\ UNCHANGED serialFrame
    \/ UartWrite /\ UNCHANGED serialFrame
    \/ ReadLine /\ UNCHANGED serialFrame
    \/ ReadError /\ UNCHANGED serialFrame
    \/ Tick /\ UNCHANGED serialFrame
    \/ ReadTimeout /\ UNCHANGED serialFrame
    \/ UartException /\ UNCHANGED serialFrame

\* ================================================================== claims
T_OK == <<"<", "<", "O", "K">>
T_ERROR == <<"<", "<", "E", "R", "R", "O", "R">>
T_ACK == <<"<", "<">>
T_ECHO == <<">", ">">>

\* The lines read that carry a framing prefix, in arrival order.
Framed == SelectSeq(response_lines, LAMBDA l : startswith(l, T_ACK) \/ startswith(l, T_ECHO))

\* The call returned from the result stage, after the read loop.
ReachedResults ==
    /\ pc = "done"
    /\ result.error \notin {Msg("Empty command"), Msg("Write incomplete"), Msg("Decode error"),
                            Msg("Read error"), Msg("UART exception")}

\* The call returned because the timeout elapsed.
TimedOut == ReachedResults /\ elapsed >= Timeout

\* C1: no line that was in the receive buffer when the call began is ever read
\* by this call's read loop, is left in the buffer once the command has been
\* written, or appears in the returned response.
C1_StaleLinesDiscarded ==
    /\ \A i \in 1..Len(consumed) : ~consumed[i].stale
    /\ (pc = "read" \/ bytes_written >= 0) => \A i \in 1..Len(rxbuf) : ~rxbuf[i].stale
    /\ pc = "done" =>
           \A i \in 1..Len(result.response) :
               \E j \in 1..Len(consumed) :
                   ~consumed[j].stale /\ result.response[i] = strip(consumed[j].raw)

\* A stale line was discarded and the exchange then returned a response.
C1_Witness == pc = "done" /\ staleDropped /\ result.response # <<>>

\* C2: success is true exactly when a '<<OK' or '<<ERROR' line was read and no
\* framed line starts with '<<ERROR'; every error outcome has success false.
C2_SuccessIff ==
    pc = "done" =>
        /\ result.success <=>
               /\ \E i \in 1..Len(response_lines) :
                      startswith(response_lines[i], T_OK) \/ startswith(response_lines[i], T_ERROR)
               /\ \A i \in 1..Len(Framed) : ~startswith(Framed[i], T_ERROR)
        /\ result.error.kind = "msg" => ~result.success

\* An exchange that succeeded with telemetry read before the '<<OK'.
C2_Witness ==
    /\ pc = "done"
    /\ result.success
    /\ Len(response_lines) > Len(Framed)

\* C3: the response is the framed lines in arrival order when there are any,
\* and all the lines read otherwise.
C3_ResponseFiltered ==
    ReachedResults =>
        /\ response_lines = [i \in 1..Len(consumed) |-> strip(consumed[i].raw)]
        /\ result.response = IF Framed # <<>> THEN Framed ELSE response_lines

\* Telemetry was dropped from between framed lines.
C3_Witness ==
    /\ ReachedResults
    /\ Len(Framed) >= 2
    /\ Len(response_lines) > Len(Framed)
    /\ result.response = Framed

\* C4: a '<<ERROR' line read makes the call return success false with that
\* line's text as the error, never the timeout text.
C4_ErrorLineWins ==
    \A i \in 1..Len(response_lines) :
        startswith(response_lines[i], T_ERROR) =>
            /\ pc = "done"
            /\ result.success = FALSE
            /\ result.error = [kind |-> "line", line |-> response_lines[i]]

\* An error line was read after other lines.
C4_Witness ==
    /\ pc = "done"
    /\ Len(response_lines) >= 2
    /\ startswith(response_lines[Len(response_lines)], T_ERROR)
    /\ result.error.kind = "line"

\* C5: on timeout without a completion marker: nothing read gives 'No response
\* received' and an empty response; otherwise 'Response incomplete (timeout)'
\* with the framed lines, or all lines when none is framed.
C5_TimeoutOutcome ==
    TimedOut =>
        /\ result.success = FALSE
        /\ IF response_lines = <<>>
           THEN /\ result.error = Msg("No response received")
                /\ result.response = <<>>
           ELSE /\ result.error = Msg("Response incomplete (timeout)")
                /\ result.response = IF Framed # <<>> THEN Framed ELSE response_lines

\* A timeout with lines read, some framed and some not.
C5_Witness ==
    /\ TimedOut
    /\ Framed # <<>>
    /\ Len(response_lines) > Len(Framed)

\* A timeout with nothing read.
C5_WitnessSilent == TimedOut /\ response_lines = <<>> /\ consumed = <<>>

\* The texts of the buffer entries, oldest first.
Raws(buf) == [i \in 1..Len(buf) |-> buf[i].raw]

\* C6: a command that is empty once trimmed returns 'Empty command' at once,
\* with no flush, no write and no read, and the call leaves the receive
\* buffer as it found it.
C6_EmptyCommandFailsFast ==
    /\ [](pc # "idle" /\ cmd_clean = <<>> =>
              /\ pc = "done"
              /\ result = Failed("Empty command")
              /\ ~flushed
              /\ bytes_written = -1
              /\ tx = <<>>
              /\ consumed = <<>>)
    /\ [][result' = Failed("Empty command") /\ emitted' = emitted =>
              Raws(rxbuf') = Raws(rxbuf)]_vars

\* An empty command returned while lines were waiting in the buffer.
C6_Witness ==
    /\ pc = "done"
    /\ result.error = Msg("Empty command")
    /\ rxbuf # <<>>
    /\ \A i \in 1..Len(rxbuf) : rxbuf[i].stale

\* C7: a write that reports another count than len(command + newline) returns
\* 'Write incomplete' with success false and an empty response, and no line is
\* read after it.
C7_PartialWriteNoRead ==
    bytes_written >= 0 /\ bytes_written # Len(cmd_clean) + 1 =>
        /\ pc = "done"
        /\ result = Failed("Write incomplete")
        /\ consumed = <<>>
        /\ response_lines = <<>>

\* A partial write returned while a line was waiting to be read.
C7_Witness ==
    /\ pc = "done"
    /\ result.error = Msg("Write incomplete")
    /\ bytes_written > 0
    /\ rxbuf # <<>>

\* C8: a line that does not decode is the last line the call reads: the call
\* returns at once with a decode error, success false and an empty response,
\* whatever was accumulated before.
C8_DecodeErrorAborts ==
    \A i \in 1..Len(consumed) :
        (\E k \in 1..Len(consumed[i].raw) : consumed[i].raw[k] = "xFF") =>
            /\ i = Len(consumed)
            /\ pc = "done"
            /\ result.success = FALSE
            /\ result.error = Msg("Decode error")
            /\ result.response = <<>>

\* A decode error after a framed line had been accumulated.
C8_Witness ==
    /\ pc = "done"
    /\ result.error = Msg("Decode error")
    /\ Framed # <<>>
    /\ result.response = <<>>

\* ---- status lines, as the claims describe them
T_STATUS == <<"S", "T", "A", "T", "U", "S">>

StatusPrefixed(l) == startswith(l, T_ECHO \o T_STATUS) \/ startswith(l, T_STATUS)

\* The comma-separated fields of a line, its optional '>>' prefix taken off.
Fields(l) == split(IF startswith(l, T_ECHO) THEN SubSeq(l, 3, Len(l)) ELSE l, ",")

IsDecimal(f) == py_float(f).ok

IsInteger(f) == py_int(f).ok

\* STATUS,<temp>,<setpoint>,<duty>,<state>
Form5(l) ==
    LET f == Fields(l)
    IN  /\ Len(f) = 5
        /\ f[1] = T_STATUS
        /\ IsDecimal(f[2]) /\ IsDecimal(f[3]) /\ IsInteger(f[4])

\* STATUS,<id>,<temp>,<setpoint>,<duty>,<state>
Form6(l) ==
    LET f == Fields(l)
    IN  /\ Len(f) = 6
        /\ f[1] = T_STATUS
        /\ IsInteger(f[2])
        /\ IsDecimal(f[3]) /\ IsDecimal(f[4]) /\ IsInteger(f[5])

\* <temp>,<duty>,<setpoint>
FormCsv(l) ==
    LET f == split(l, ",")
    IN  /\ Len(f) = 3
        /\ IsDecimal(f[1]) /\ IsInteger(f[2]) /\ IsDecimal(f[3])

\* k is the first line of the response with the STATUS prefix.
FirstStatusLine(k) ==
    /\ k \in 1..Len(result.response)
    /\ StatusPrefixed(result.response[k])
    /\ \A j \in 1..(k - 1) : ~StatusPrefixed(result.response[j])

\* GET /status has returned its body.
StatusServed == pc = "done" /\ route = "GET /status"

T_STATUS5 == strip(L_STATUS5)

\* C9 as stated: a line STATUS,<id>,<temp>,<setpoint>,<duty>,<state> parses to
\* temperature <temp>, setpoint <setpoint>, duty_cycle <duty>, state <state>.
C9_LegacyWithId ==
    StatusServed =>
        \A k \in 1..Len(result.response) :
            FirstStatusLine(k) /\ Form6(result.response[k]) =>
                LET f == Fields(result.response[k])
                IN  /\ reply.temperature = py_float(f[3]).val
                    /\ reply.setpoint = py_float(f[4]).val
                    /\ reply.duty_cycle = py_int(f[5]).val
                    /\ reply.state = Str(f[6])

\* C9 amended: a line STATUS,<temp>,<setpoint>,<duty>,<state> (no <id> field,
\* optionally prefixed '>>') that is the first STATUS line of the response
\* parses to temperature <temp>, setpoint <setpoint>, duty_cycle <duty>, state
\* <state>; '>>STATUS,93.4,108.0,42,heating' gives 93.4, 108.0, 42, 'heating'.
C9_LegacyNoId ==
    StatusServed =>
        \A k \in 1..Len(result.response) :
            FirstStatusLine(k) /\ Form5(result.response[k]) =>
                LET f == Fields(result.response[k])
                IN  /\ reply.temperature = py_float(f[2]).val
                    /\ reply.setpoint = py_float(f[3]).val
                    /\ reply.duty_cycle = py_int(f[4]).val
                    /\ reply.state = Str(f[5])
                    /\ result.response[k] = T_STATUS5 =>
                           /\ reply.temperature = <<"float", 934, 1>>
                           /\ reply.setpoint = <<"float", 108, 0>>
                           /\ reply.duty_cycle = <<"int", 42>>
                           /\ reply.state = Str(<<"h", "e", "a", "t", "i", "n", "g">>)

\* GET /status served '>>STATUS,93.4,108.0,42,heating', read after another line.
C9_Witness ==
    /\ StatusServed
    /\ \E k \in 2..Len(result.response) :
           FirstStatusLine(k) /\ result.response[k] = T_STATUS5
    /\ reply.temperature = <<"float", 934, 1>>

\* C10: with no STATUS line read, GET /status reports the last line read, taken
\* as temperature,duty_cycle,setpoint with state 'unknown', whatever was read
\* before it.
C10_LastLineReadIsStatus ==
    ReachedResults /\ route = "GET /status" /\ response_lines # <<>> =>
        LET last == response_lines[Len(response_lines)]
            f == split(last, ",")
        IN  (FormCsv(last) /\ \A i \in 1..Len(response_lines) : ~StatusPrefixed(response_lines[i])) =>
                /\ reply.temperature = py_float(f[1]).val
                /\ reply.duty_cycle = py_int(f[2]).val
                /\ reply.setpoint = py_float(f[3]).val
                /\ reply.state = Str(S_UNKNOWN)

\* ======================================================= the schedule engine
FirstYear == 2024

Years == FirstYear..(FirstYear + MaxYears - 1)

IsLeap(y) == (y % 4 = 0 /\ y % 100 # 0) \/ y % 400 = 0

DaysInMonth(y, m) ==
    IF m = 2 THEN (IF IsLeap(y) THEN 29 ELSE 28)
    ELSE IF m \in {4, 6, 9, 11} THEN 30 ELSE 31

\* Days from 2000-01-01 to y-m-d; the weekday of a date does not depend on
\* the epoch time.mktime counts from.
RECURSIVE DaysBeforeYear(_)
DaysBeforeYear(y) ==
    IF y <= 2000 THEN 0
    ELSE DaysBeforeYear(y - 1) + (IF IsLeap(y - 1) THEN 366 ELSE 365)

RECURSIVE DaysBeforeMonth(_, _)
DaysBeforeMonth(y, m) ==
    IF m <= 1 THEN 0 ELSE DaysBeforeMonth(y, m - 1) + DaysInMonth(y, m - 1)

\* time.mktime((year, month, day, 0, 0, 0, 0, 0, 0)), in days.
mktime_days(y, m, d) == DaysBeforeYear(y) + DaysBeforeMonth(y, m) + (d - 1)

\* time.localtime(t)[6]: 0 = Monday .. 6 = Sunday; 2000-01-01 was a Saturday.
localtime_weekday(days) == (days + 5) % 7

\* get_nth_weekday_of_month with the first occurrence taken for every n.
get_nth_weekday_of_month_first(y, m, weekday, n) ==
    LET first_weekday == localtime_weekday(mktime_days(y, m, 1))
        days_until_weekday == (weekday - first_weekday) % 7
    IN  1 + days_until_weekday

get_nth_weekday_of_month(y, m, weekday, n) ==
    LET first_weekday == localtime_weekday(mktime_days(y, m, 1))
        days_until_weekday == (weekday - first_weekday) % 7
    IN  1 + days_until_weekday + (n - 1) * 7

is_dst(y, m, d) ==
    LET dst_start_day == get_nth_weekday_of_month(y, 3, 6, 2)
        dst_end_day == get_nth_weekday_of_month(y, 11, 6, 1)
    IN  IF m < 3 \/ m > 11 THEN FALSE
        ELSE IF m > 3 /\ m < 11 THEN TRUE
        ELSE IF m = 3 THEN d >= dst_start_day
        ELSE d < dst_end_day

get_timezone_offset(y, m, d) ==
    IF is_dst(y, m, d) THEN BASE_TIMEZONE_OFFSET + 1 ELSE BASE_TIMEZONE_OFFSET

get_local_hour(y, m, d, h) == (h + get_timezone_offset(y, m, d)) % 24

\* is_wifi_hours with the window closed at its end hour too.
is_wifi_hours_closed_end(hour, start, end) ==
    IF end <= start
    THEN hour >= start \/ hour <= end
    ELSE start <= hour /\ hour <= end

\* is_wifi_hours(), given get_local_hour() and the configured window.
is_wifi_hours(hour, start, end) ==
    IF end <= start
    THEN hour >= start \/ hour < end
    ELSE start <= hour /\ hour < end

NotEvaluated == [kind |-> "None"]

\* The schedule engine at rest, as the other parts find it: the configured
\* window, and the RTC as a reset leaves it.
SchedParked ==
    /\ cfg_start = WIFI_START_HOUR
    /\ cfg_end = WIFI_END_HOUR
    /\ year = FirstYear
    /\ month = 1
    /\ day = 1
    /\ utc_hour = 0
    /\ sched = NotEvaluated

\* Either any window at every hour of one day, or the configured window on
\* every date of the range at every hour.
SchedInit ==
    /\ sched = NotEvaluated
    /\ utc_hour \in 0..23
    /\ \/ /\ cfg_start \in 0..23
          /\ cfg_end \in 0..23
          /\ year = FirstYear /\ month = 1 /\ day = 1
       \/ /\ cfg_start = WIFI_START_HOUR
          /\ cfg_end = WIFI_END_HOUR
          /\ year \in Years
          /\ month \in 1..12
          /\ day \in 1..31
          /\ day <= DaysInMonth(year, month)

\* The functions are called on the RTC's date and hour.
Evaluate ==
    /\ sched = NotEvaluated
    /\ sched' = [kind |-> "eval",
                 dst |-> is_dst(year, month, day),
                 offset |-> get_timezone_offset(year, month, day),
                 local_hour |-> get_local_hour(year, month, day, utc_hour),
                 in_hours |-> is_wifi_hours(get_local_hour(year, month, day, utc_hour),
                                            cfg_start, cfg_end)]
    /\ UNCHANGED <<cfg_start, cfg_end, year, month, day, utc_hour>>

schedFrame == <<vars, wifiVars, serverVars, bootVars, exchangeVars>>

SchedNext == Evaluate /\ UNCHANGED schedFrame

\* ------------------------------------------------- claims on the schedule
Evaluated == sched.kind = "eval"

\* C11: for every local hour and every configured window, is_wifi_hours is
\* true exactly when start <= hour < end if start < end, and exactly when
\* hour >= start or hour < end if end <= start; a window whose start equals
\* its end is always active.
C11_WindowMembership ==
    Evaluated =>
        LET h == sched.local_hour IN
        /\ cfg_start < cfg_end =>
               (sched.in_hours <=> (cfg_start <= h /\ h < cfg_end))
        /\ cfg_end <= cfg_start =>
               (sched.in_hours <=> (h >= cfg_start \/ h < cfg_end))
        /\ cfg_start = cfg_end => sched.in_hours

\* A window over midnight, evaluated after midnight and inside the window.
C11_Witness ==
    /\ Evaluated
    /\ cfg_end < cfg_start
    /\ sched.local_hour < cfg_end
    /\ sched.in_hours

\* The weekday of a date by Sakamoto's method, 0 = Sunday.
SakamotoT == <<0, 3, 2, 5, 0, 3, 5, 1, 4, 6, 2, 4>>

DayOfWeek(y, m, d) ==
    LET yy == IF m < 3 THEN y - 1 ELSE y
    IN  (yy + (yy \div 4) - (yy \div 100) + (yy \div 400) + SakamotoT[m] + d) % 7

SecondSundayOfMarch(y) == CHOOSE d \in 8..14 : DayOfWeek(y, 3, d) = 0

FirstSundayOfNovember(y) == CHOOSE d \in 1..7 : DayOfWeek(y, 11, d) = 0

\* The weekday of the first of a month, 0 = Monday.
WeekdayOfFirst(y, m) == (DayOfWeek(y, m, 1) + 6) % 7

InUsDst(y, m, d) ==
    /\ m > 3 \/ (m = 3 /\ d >= SecondSundayOfMarch(y))
    /\ m < 11 \/ (m = 11 /\ d < FirstSundayOfNovember(y))

\* C12: is_dst is true exactly from the second Sunday of March, included,
\* to the first Sunday of November, excluded; each transition day is
\* 1 + ((Sunday - weekday of the 1st) mod 7) + (n - 1) * 7; the offset is
\* the base offset or the base offset plus one; the local hour is
\* (UTC hour + offset) mod 24 and lies in 0..23.
C12_DstAndLocalHour ==
    Evaluated =>
        /\ sched.dst <=> InUsDst(year, month, day)
        /\ SecondSundayOfMarch(year) = 1 + ((6 - WeekdayOfFirst(year, 3)) % 7) + 7
        /\ FirstSundayOfNovember(year) = 1 + ((6 - WeekdayOfFirst(year, 11)) % 7)
        /\ year = 2024 => SecondSundayOfMarch(year) = 10 /\ FirstSundayOfNovember(year) = 3
        /\ year = 2026 => SecondSundayOfMarch(year) = 8 /\ FirstSundayOfNovember(year) = 1
        /\ sched.offset = (IF sched.dst THEN BASE_TIMEZONE_OFFSET + 1 ELSE BASE_TIMEZONE_OFFSET)
        /\ sched.offset \in {BASE_TIMEZONE_OFFSET, BASE_TIMEZONE_OFFSET + 1}
        /\ sched.local_hour = (utc_hour + sched.offset) % 24
        /\ sched.local_hour \in 0..23

\* Evaluated on the day daylight saving time starts, the local hour being
\* in the previous calendar day.
C12_Witness ==
    /\ Evaluated
    /\ month = 3
    /\ day = SecondSundayOfMarch(year)
    /\ sched.dst
    /\ utc_hour < 7
    /\ sched.local_hour = utc_hour + 17

\* ================================================= the connectivity manager
\* wlan.status(): -1 is "not_ready"; wlan.isconnected() is status "got_ip".
Statuses == {"not_ready", "idle", "connecting", "wrong_password",
             "no_ap_found", "got_ip"}

\* A call of wlan.status() that raises.
RAISED == "raised"

RadioOff == [active |-> FALSE, status |-> "idle"]

isconnected(w) == w.active /\ w.status = "got_ip"

\* wlan.disconnect()
wlan_disconnect(w) ==
    IF w.status = "not_ready" THEN w ELSE [w EXCEPT !.status = "idle"]

\* disconnect_wifi that leaves the interface up.
disconnect_wifi_keeps_radio_up(w) ==
    IF isconnected(w) THEN wlan_disconnect(w) ELSE w

\* disconnect_wifi(): wlan.disconnect() if connected, then wlan.active(False).
disconnect_wifi(w) ==
    LET w1 == IF isconnected(w) THEN wlan_disconnect(w) ELSE w
    IN  [w1 EXCEPT !.active = FALSE, !.status = "idle"]

\* The polling loop with the wrong-password status only ending the wait.
on_status_wrong_password_breaks(st, net) ==
    IF st = RAISED THEN "continue"
    ELSE IF (net.STAT_WRONG_PASSWORD /\ st = "wrong_password")
            \/ (net.STAT_NO_AP_FOUND /\ st = "no_ap_found") THEN "break"
    ELSE "continue"

\* What the polling loop does on the status it read (lines 257-276).
on_status(st, net) ==
    IF st = RAISED THEN "continue"
    ELSE IF net.STAT_WRONG_PASSWORD /\ st = "wrong_password" THEN "return_false"
    ELSE IF net.STAT_NO_AP_FOUND /\ st = "no_ap_found" THEN "break"
    ELSE "continue"

\* The polling loop without its countdown.
wait_continues_no_countdown(w, t) == ~isconnected(w)

\* while not wlan.isconnected() and timeout > 0
wait_continues(w, t) == ~isconnected(w) /\ t > 0

\* wait_for_wifi_ready: a status read without an exception and not -1.
hardware_ready(st) == st # RAISED /\ st # "not_ready"

\* No status of interest was read so far.
NoMark == [seen |-> FALSE, connects |-> 0, pauses |-> 0]

\* The history of a call: wlan.connect calls, polls of the current attempt,
\* pauses, attempts begun, why it returned, the counts when the
\* wrong-password status was read, whether the no-AP status was read in the
\* current attempt and in the call.
NewLog == [connects |-> 0, polls |-> 0, pauses |-> 0, attempts |-> 0,
           reason |-> "none", wp |-> NoMark, noap_now |-> FALSE,
           noap_seen |-> FALSE]

\* No call of connect_wifi_robust going on or made.
WifiCallIdle ==
    /\ network = [STAT_IDLE |-> TRUE, STAT_WRONG_PASSWORD |-> TRUE,
                  STAT_NO_AP_FOUND |-> TRUE]
    /\ w_pc = "idle"
    /\ attempt = 0
    /\ timeout = 0
    /\ w_elapsed = 0
    /\ w_result = "none"
    /\ w_log = NewLog
    /\ w_last = "none"
    /\ w_before = RadioOff

WifiParked == wlan = RadioOff /\ WifiCallIdle

\* The radio is down, or up in any status; the platform has any of the
\* three constants.
WifiInit ==
    /\ wlan \in {RadioOff} \cup [active : {TRUE}, status : Statuses]
    /\ network \in [STAT_IDLE : BOOLEAN, STAT_WRONG_PASSWORD : BOOLEAN,
                    STAT_NO_AP_FOUND : BOOLEAN]
    /\ w_pc = "idle"
    /\ attempt = 0
    /\ timeout = 0
    /\ w_elapsed = 0
    /\ w_result = "none"
    /\ w_log = NewLog
    /\ w_last = "none"
    /\ w_before = RadioOff

\* return from connect_wifi_robust; its locals are gone.
WifiReturn(res, why) ==
    /\ w_pc' = "idle"
    /\ w_result' = res
    /\ w_log' = [w_log EXCEPT !.reason = why]
    /\ attempt' = 0
    /\ timeout' = 0
    /\ w_elapsed' = 0

\* The radio on its own: the hardware gets ready, an association ends one
\* way or the other, the driver retries, the link is lost.
RadioEvent ==
    /\ wlan.active
    /\ \E st \in Statuses :
          /\ \/ wlan.status = "not_ready" /\ st = "idle"
             \/ wlan.status = "connecting"
                   /\ st \in {"got_ip", "wrong_password", "no_ap_found", "idle"}
             \/ wlan.status \in {"wrong_password", "no_ap_found"} /\ st = "connecting"
             \/ wlan.status = "got_ip" /\ st \in {"connecting", "no_ap_found"}
          /\ wlan' = [wlan EXCEPT !.status = st]
    /\ UNCHANGED <<network, w_pc, attempt, timeout, w_elapsed, w_result,
                   w_log, w_last, w_before>>

\* connect_wifi_robust() is called; wait_for_wifi_ready brings the
\* interface up if it is down.
CallConnect ==
    /\ w_pc = "idle"
    /\ w_pc' = "gate"
    /\ \/ wlan.active /\ wlan' = wlan
       \/ ~wlan.active /\ \E st \in {"not_ready", "idle"} :
                              wlan' = [active |-> TRUE, status |-> st]
    /\ w_elapsed' = 0
    /\ attempt' = 0
    /\ timeout' = 0
    /\ w_result' = "none"
    /\ w_log' = NewLog
    /\ w_last' = "connect"
    /\ w_before' = RadioOff
    /\ UNCHANGED network

\* wait_for_wifi_ready: the status is not usable yet; blink and sleep.
GateWait ==
    /\ w_pc = "gate"
    /\ w_elapsed < max_wait
    /\ \E st \in {wlan.status, RAISED} : ~hardware_ready(st)
    /\ w_elapsed' = w_elapsed + 1
    /\ UNCHANGED <<wlan, network, w_pc, attempt, timeout, w_result, w_log,
                   w_last, w_before>>

\* wait_for_wifi_ready returns True.
GateReady ==
    /\ w_pc = "gate"
    /\ w_elapsed < max_wait
    /\ hardware_ready(wlan.status)
    /\ w_pc' = "attempt"
    /\ attempt' = 0
    /\ w_elapsed' = 0
    /\ UNCHANGED <<wlan, network, timeout, w_result, w_log, w_last, w_before>>

\* wait_for_wifi_ready returns False and so does connect_wifi_robust.
GateTimeout ==
    /\ w_pc = "gate"
    /\ w_elapsed >= max_wait
    /\ WifiReturn("False", "gate")
    /\ UNCHANGED <<wlan, network, w_last, w_before>>

\* The top of an attempt: return True if already connected, else drop a
\* partial connection (lines 223-246).
AttemptTop ==
    /\ w_pc = "attempt"
    /\ IF isconnected(wlan)
       THEN /\ WifiReturn("True", "connected")
            /\ wlan' = wlan
       ELSE /\ w_pc' = "connect"
            /\ UNCHANGED <<w_result, attempt, timeout, w_elapsed>>
            /\ w_log' = [w_log EXCEPT !.attempts = @ + 1, !.polls = 0,
                                      !.noap_now = FALSE]
            /\ \E st \in {wlan.status, RAISED} : \E raises \in BOOLEAN :
                  wlan' = IF st = RAISED \/ raises THEN wlan
                          ELSE IF network.STAT_IDLE /\ st = "idle" THEN wlan
                          ELSE wlan_disconnect(wlan)
    /\ UNCHANGED <<network, w_last, w_before>>

\* wlan.connect(WIFI_SSID, WIFI_PASSWORD); an exception ends the attempt.
Connect ==
    /\ w_pc = "connect"
    /\ w_log' = [w_log EXCEPT !.connects = @ + 1]
    /\ \/ /\ wlan' = [wlan EXCEPT !.status = "connecting"]
          /\ timeout' = WIFI_CONNECT_TIMEOUT
          /\ w_pc' = "wait"
       \/ /\ wlan' = wlan
          /\ timeout' = timeout
          /\ w_pc' = "pause"
    /\ UNCHANGED <<network, attempt, w_elapsed, w_result, w_last, w_before>>

\* One round of the polling loop: blink, count down, read the status.
WaitPoll ==
    /\ w_pc = "wait"
    /\ wait_continues(wlan, timeout)
    /\ \E st \in {wlan.status, RAISED} :
          LET mark == [seen |-> TRUE, connects |-> w_log.connects,
                       pauses |-> w_log.pauses]
              wp_read == network.STAT_WRONG_PASSWORD /\ st = "wrong_password"
              noap_read == network.STAT_NO_AP_FOUND /\ st = "no_ap_found"
              log1 == [w_log EXCEPT !.polls = @ + 1,
                          !.wp = IF wp_read THEN mark ELSE @,
                          !.noap_now = @ \/ noap_read,
                          !.noap_seen = @ \/ noap_read]
              todo == on_status(st, network)
          IN  CASE todo = "return_false" ->
                       /\ w_pc' = "idle"
                       /\ w_result' = "False"
                       /\ w_log' = [log1 EXCEPT !.reason = "wrong_password"]
                       /\ attempt' = 0
                       /\ timeout' = 0
                [] todo = "break" ->
                       /\ w_pc' = "after_wait"
                       /\ w_result' = w_result
                       /\ w_log' = log1
                       /\ attempt' = attempt
                       /\ timeout' = timeout - 1
                [] OTHER ->
                       /\ w_pc' = "wait"
                       /\ w_result' = w_result
                       /\ w_log' = log1
                       /\ attempt' = attempt
                       /\ timeout' = timeout - 1
    /\ UNCHANGED <<wlan, network, w_elapsed, w_last, w_before>>

\* The polling loop's condition fails.
WaitEnd ==
    /\ w_pc = "wait"
    /\ ~wait_continues(wlan, timeout)
    /\ w_pc' = "after_wait"
    /\ UNCHANGED <<wlan, network, attempt, timeout, w_elapsed, w_result,
                   w_log, w_last, w_before>>

\* After the loop: return True if connected, else the attempt has failed.
AfterWait ==
    /\ w_pc = "after_wait"
    /\ IF isconnected(wlan)
       THEN WifiReturn("True", "connected")
       ELSE /\ w_pc' = "pause"
            /\ UNCHANGED <<w_result, w_log, attempt, timeout, w_elapsed>>
    /\ UNCHANGED <<wlan, network, w_last, w_before>>

\* The pause before a retry, none after the last attempt; then the next
\* attempt, or False when there is none.
Pause ==
    /\ w_pc = "pause"
    /\ IF attempt < WIFI_CONNECT_RETRIES - 1
       THEN /\ w_pc' = "attempt"
            /\ attempt' = attempt + 1
            /\ w_log' = [w_log EXCEPT !.pauses = @ + 1]
            /\ UNCHANGED <<w_result, timeout, w_elapsed>>
       ELSE WifiReturn("False", "exhausted")
    /\ UNCHANGED <<wlan, network, w_last, w_before>>

\* disconnect_wifi() is called.
DisconnectWifi ==
    /\ w_pc = "idle"
    /\ wlan' = disconnect_wifi(wlan)
    /\ w_last' = "disconnect"
    /\ w_before' = wlan
    /\ UNCHANGED <<network, w_pc, attempt, timeout, w_elapsed, w_result, w_log>>

wifiFrame == <<vars, schedVars, serverVars, bootVars, exchangeVars>>

WifiNext ==
    \/ RadioEvent /\ UNCHANGED wifiFrame
    \/ CallConnect /\ UNCHANGED wifiFrame
    \/ GateWait /\ UNCHANGED wifiFrame
    \/ GateReady /\ UNCHANGED wifiFrame
    \/ GateTimeout /\ UNCHANGED wifiFrame
    \/ AttemptTop /\ UNCHANGED wifiFrame
    \/ Connect /\ UNCHANGED wifiFrame
    \/ WaitPoll /\ UNCHANGED wifiFrame
    \/ WaitEnd /\ UNCHANGED wifiFrame
    \/ AfterWait /\ UNCHANGED wifiFrame
    \/ Pause /\ UNCHANGED wifiFrame
    \/ DisconnectWifi /\ UNCHANGED wifiFrame

\* ========================================================== the web server
Crlf == <<"\r", "\n">>

RequestLine(method, path) == <<method, " ", path, " ", "HTTP/1.1">>

Headers == Crlf \o <<"Host:silvia">> \o Crlf

R_ROOT == RequestLine("GET", "/") \o Headers \o Crlf
R_STATUS == RequestLine("GET", "/status") \o Headers \o Crlf
R_STATUS_SHORT == <<"GET", " ", "/status">>
R_CMD == RequestLine("POST", "/cmd") \o Headers \o Crlf \o C_REG
R_CMD_NO_BODY == RequestLine("POST", "/cmd") \o Headers \o Crlf
\* A POST whose first 1024 bytes end before the blank line.
R_CMD_HEADERS_ONLY == RequestLine("POST", "/cmd") \o Headers
R_FAVICON == RequestLine("GET", "/favicon.ico") \o Headers \o Crlf
R_ONE_WORD == <<"GET">>
R_EMPTY == <<>>
R_UNDECODABLE == <<"GET", " ", "/", "xFF">>

Requests == {R_ROOT, R_STATUS, R_STATUS_SHORT, R_CMD, R_CMD_NO_BODY,
             R_CMD_HEADERS_ONLY, R_FAVICON, R_ONE_WORD, R_EMPTY, R_UNDECODABLE}

\* request.split('\r\n')
RECURSIVE split_crlf(_)
split_crlf(s) ==
    IF \A i \in 1..(Len(s) - 1) : SubSeq(s, i, i + 1) # Crlf
    THEN <<s>>
    ELSE LET i == CHOOSE k \in 1..(Len(s) - 1) :
                      /\ SubSeq(s, k, k + 1) = Crlf
                      /\ \A j \in 1..(k - 1) : SubSeq(s, j, j + 1) # Crlf
         IN  <<SubSeq(s, 1, i - 1)>> \o split_crlf(SubSeq(s, i + 2, Len(s)))

\* request.find('\r\n\r\n'): the index from 0, or -1.
find_blank_line(s) ==
    IF \A i \in 1..(Len(s) - 3) : SubSeq(s, i, i + 3) # Crlf \o Crlf
    THEN -1
    ELSE (CHOOSE k \in 1..(Len(s) - 3) :
              /\ SubSeq(s, k, k + 3) = Crlf \o Crlf
              /\ \A j \in 1..(k - 1) : SubSeq(s, j, j + 3) # Crlf \o Crlf) - 1

\* request[body_start+4:]
body_of(s) == SubSeq(s, find_blank_line(s) + 5, Len(s))

\* The route the request line selects, "none" if it selects none.
route_of(request) ==
    LET lines == split_crlf(request)
        parts == split(lines[1], " ")
    IN  IF Len(parts) >= 2
        THEN IF parts[1] = <<"GET">> /\ parts[2] = <<"/">> THEN "GET /"
             ELSE IF parts[1] = <<"GET">> /\ parts[2] = <<"/status">> THEN "GET /status"
             ELSE IF parts[1] = <<"POST">> /\ parts[2] = <<"/cmd">> THEN "POST /cmd"
             ELSE "none"
        ELSE "none"

MatchedRoutes == {"GET /", "GET /status", "POST /cmd"}

\* What send_command can return for a command that is not empty.
ResponseLists == {<<>>, <<T_STATUS5>>, <<T_STATUS5, T_OK>>, <<T_OK>>,
                  <<strip(L_ERROR)>>}

SerialOutcomes ==
    {check_results(ls, found) : ls \in ResponseLists, found \in BOOLEAN}
        \cup {Failed("Write incomplete"), Failed("Decode error"),
              Failed("Read error"), Failed("UART exception")}

\* send_command(command) as the route sees it.
CommandOutcomes(command) ==
    IF IsEmptyCommand(strip(command)) THEN {Failed("Empty command")}
    ELSE SerialOutcomes

HtmlPage == [kind |-> "html"]

NoBody == [kind |-> "None"]

\* The responses the route can build for the request: none if the route
\* sends nothing.
responses(request) ==
    LET rt == route_of(request)
    IN  IF rt = "GET /" THEN {HtmlPage}
        ELSE IF rt = "GET /status"
        THEN {status_body(res) : res \in CommandOutcomes(C_STATUS)}
        ELSE IF rt = "POST /cmd" /\ find_blank_line(request) # -1
        THEN {cmd_body(res) : res \in CommandOutcomes(strip(body_of(request)))}
        ELSE {}

\* The finally clause with no close.
finally_closes_never(cl) == FALSE

\* finally: if cl: cl.close()
finally_closes(cl) == cl # "None"

\* The finally clause with no look at the schedule.
loop_exits_never(in_hours) == FALSE

\* finally: if not is_wifi_hours(): break
loop_exits(in_hours) == ~in_hours

\* is_wifi_hours() now.
InWindow ==
    is_wifi_hours(get_local_hour(year, month, day, utc_hour), cfg_start, cfg_end)

NoConn == [accepted |-> FALSE, route |-> "none", fault |-> "none",
           responded |-> FALSE, body |-> NoBody, closed |-> FALSE]

\* Rounds begun in a row out of the window, rounds begun in a row without
\* WiFi, client sockets open, whether the clock has moved in this round.
NewServerLog == [after_end |-> 0, lost |-> 0, open |-> 0, ticked |-> FALSE]

ServerParked ==
    /\ s_pc = "stopped"
    /\ s_cl = "None"
    /\ s_request = <<>>
    /\ s_conn = NoConn
    /\ s_log = NewServerLog

\* The configured window on the first day of the range, at any hour.
ClockInit ==
    /\ cfg_start = WIFI_START_HOUR
    /\ cfg_end = WIFI_END_HOUR
    /\ year = FirstYear
    /\ month = 1
    /\ day = 1
    /\ utc_hour \in 0..23
    /\ sched = NotEvaluated

\* The radio is connected, as main leaves it before it starts the server.
ServerInit ==
    /\ ServerParked
    /\ wlan = [active |-> TRUE, status |-> "got_ip"]
    /\ WifiCallIdle

Saturating(n) == IF n < IterCap THEN n + 1 ELSE n

\* main calls web_server_scheduled(): connected and in the window.
ServeStart ==
    /\ s_pc = "stopped"
    /\ isconnected(wlan)
    /\ InWindow
    /\ s_pc' = "top"
    /\ s_conn' = NoConn
    /\ s_log' = [NewServerLog EXCEPT !.open = s_log.open]
    /\ UNCHANGED <<s_cl, s_request>>

\* while True: cl = None; s.accept() begins.
LoopTop ==
    /\ s_pc = "top"
    /\ s_pc' = "accept"
    /\ s_cl' = "None"
    /\ s_request' = <<>>
    /\ s_conn' = NoConn
    /\ s_log' = [s_log EXCEPT
                    !.after_end = IF InWindow THEN 0 ELSE Saturating(@),
                    !.lost = IF isconnected(wlan) THEN 0 ELSE Saturating(@),
                    !.ticked = FALSE]

\* s.accept() times out or fails: break if the window is over, else
\* continue; the finally clause runs either way.
AcceptTimeout ==
    /\ s_pc = "accept"
    /\ s_pc' = IF ~InWindow THEN "finally_break" ELSE "finally"
    /\ UNCHANGED <<s_cl, s_request, s_conn, s_log>>

\* s.accept() returns a client.
AcceptClient ==
    /\ s_pc = "accept"
    /\ s_pc' = "recv"
    /\ s_cl' = "open"
    /\ s_conn' = [s_conn EXCEPT !.accepted = TRUE]
    /\ s_log' = [s_log EXCEPT !.open = @ + 1]
    /\ UNCHANGED s_request

\* The continue after a receive error going to the next round past the
\* finally clause.
RecvFault_skips_finally ==
    /\ s_pc = "recv"
    /\ \E f \in {"settimeout", "recv"} : s_conn' = [s_conn EXCEPT !.fault = f]
    /\ s_pc' = "top"
    /\ UNCHANGED <<s_cl, s_request, s_log>>

\* cl.settimeout() or cl.recv() raises: nothing is read.
RecvFault ==
    /\ s_pc = "recv"
    /\ \E f \in {"settimeout", "recv"} : s_conn' = [s_conn EXCEPT !.fault = f]
    /\ s_pc' = "finally"
    /\ UNCHANGED <<s_cl, s_request, s_log>>

\* cl.recv(1024).decode('utf-8')
Recv ==
    /\ s_pc = "recv"
    /\ \E req \in Requests :
          IF decodable(req)
          THEN /\ s_request' = req
               /\ s_pc' = "handle"
               /\ s_conn' = s_conn
          ELSE /\ s_request' = s_request
               /\ s_pc' = "finally"
               /\ s_conn' = [s_conn EXCEPT !.fault = "decode"]
    /\ UNCHANGED <<s_cl, s_log>>

\* The route is chosen and its response built and sent; the send may fail,
\* and so may the handler before anything is sent.
\* The route and the responses of every request that can be received.
Routing == [req \in {r \in Requests : decodable(r)} |->
               [route |-> route_of(req), responses |-> responses(req)]]

\* How a round can stand after the handler: a response sent, the send
\* failed, nothing to send, or the handler failed before sending.
handled(request, conn0) ==
    LET conn == [conn0 EXCEPT !.route = Routing[request].route]
    IN  {[conn EXCEPT !.responded = TRUE, !.body = body] :
             body \in Routing[request].responses}
        \cup (IF Routing[request].responses = {} THEN {conn}
              ELSE {[conn EXCEPT !.fault = "send"]})
        \cup {[conn EXCEPT !.fault = "handler"]}

Handle ==
    /\ s_pc = "handle"
    /\ s_pc' = "finally"
    /\ s_conn' \in handled(s_request, s_conn)
    /\ UNCHANGED <<s_cl, s_request, s_log>>

\* finally: close the client, leave the loop if the window is over.
Finally ==
    /\ s_pc \in {"finally", "finally_break"}
    /\ IF finally_closes(s_cl)
       THEN /\ s_cl' = "None"
            /\ s_conn' = [s_conn EXCEPT !.closed = TRUE]
            /\ s_log' = [s_log EXCEPT !.open = @ - 1]
       ELSE UNCHANGED <<s_cl, s_conn, s_log>>
    /\ s_pc' = IF s_pc = "finally_break" \/ loop_exits(InWindow)
               THEN "stopped" ELSE "top"
    /\ UNCHANGED s_request

\* An hour goes by.  A round of the loop is a matter of seconds (every
\* socket call has a timeout of 10 s), so the hour changes at most once in it.
ClockHour ==
    /\ s_pc = "stopped" \/ ~s_log.ticked
    /\ utc_hour' = (utc_hour + 1) % 24
    /\ s_log' = [s_log EXCEPT !.ticked = (s_pc # "stopped")]
    /\ UNCHANGED <<cfg_start, cfg_end, year, month, day, sched>>
    /\ UNCHANGED <<s_pc, s_cl, s_request, s_conn>>

serverFrame == <<vars, schedVars, wifiVars, bootVars, exchangeVars>>

\* The steps of the server itself.
ServerStep ==
    \/ ServeStart /\ UNCHANGED serverFrame
    \/ LoopTop /\ UNCHANGED serverFrame
    \/ AcceptTimeout /\ UNCHANGED serverFrame
    \/ AcceptClient /\ UNCHANGED serverFrame
    \/ RecvFault /\ UNCHANGED serverFrame
    \/ Recv /\ UNCHANGED serverFrame
    \/ Handle /\ UNCHANGED serverFrame
    \/ Finally /\ UNCHANGED serverFrame

ServerNext ==
    \/ ServerStep
    \/ ClockHour /\ UNCHANGED <<vars, wifiVars, bootVars, exchangeVars>>
    \/ RadioEvent /\ UNCHANGED <<vars, schedVars, serverVars, bootVars, exchangeVars>>

\* ========================================================= the boot of main
\* Whether the server was entered, and what connect_wifi_robust and
\* sync_time returned.
NewBootLog == [served |-> FALSE, connected |-> "none", synced |-> "none"]

BootParked ==
    /\ b_pc = "off"
    /\ time_synced = FALSE
    /\ wifi_active = FALSE
    /\ b_log = NewBootLog

\* main begins after a reset.
BootInit ==
    /\ b_pc = "boot"
    /\ time_synced = FALSE
    /\ wifi_active = FALSE
    /\ b_log = NewBootLog

\* if connect_wifi_robust(): the call begins.
BootConnect ==
    /\ b_pc = "boot"
    /\ CallConnect
    /\ b_pc' = "connecting"
    /\ UNCHANGED <<time_synced, wifi_active, b_log>>

\* connect_wifi_robust() has returned.
BootConnected ==
    /\ b_pc = "connecting"
    /\ w_pc = "idle"
    /\ b_pc' = IF w_result = "True" THEN "sync" ELSE "decide"
    /\ b_log' = [b_log EXCEPT !.connected = w_result]
    /\ UNCHANGED <<time_synced, wifi_active>>
    /\ UNCHANGED <<schedVars, wifiVars>>

\* sync_time(): ntptime.settime() sets the RTC in one of three attempts, or
\* in none.
BootSync ==
    /\ b_pc = "sync"
    /\ b_pc' = "decide"
    /\ \/ /\ time_synced' = TRUE
          /\ utc_hour' \in 0..23
          /\ b_log' = [b_log EXCEPT !.synced = "True"]
       \/ /\ time_synced' = FALSE
          /\ utc_hour' = utc_hour
          /\ b_log' = [b_log EXCEPT !.synced = "False"]
    /\ UNCHANGED <<cfg_start, cfg_end, year, month, day, sched>>
    /\ UNCHANGED <<wifi_active, wifiVars>>

\* if time_synced and is_wifi_hours(): the server is entered.
BootServe ==
    /\ b_pc = "decide"
    /\ time_synced /\ InWindow
    /\ b_pc' = "serving"
    /\ b_log' = [b_log EXCEPT !.served = TRUE]
    /\ UNCHANGED <<time_synced, wifi_active, schedVars, wifiVars>>

\* web_server_scheduled() returns, the window being over, or raises; then
\* disconnect_wifi(), and the monitoring loop begins.
BootServed ==
    /\ b_pc = "serving"
    /\ DisconnectWifi
    /\ b_pc' = "steady"
    /\ wifi_active' = isconnected(wlan')
    /\ UNCHANGED <<time_synced, b_log, schedVars>>

\* elif time_synced: disconnect_wifi(); the monitoring loop begins.
BootOutOfHours ==
    /\ b_pc = "decide"
    /\ time_synced /\ ~InWindow
    /\ DisconnectWifi
    /\ b_pc' = "steady"
    /\ wifi_active' = isconnected(wlan')
    /\ UNCHANGED <<time_synced, b_log, schedVars>>

\* Neither branch is taken; the monitoring loop begins.
BootNotSynced ==
    /\ b_pc = "decide"
    /\ ~time_synced
    /\ b_pc' = "steady"
    /\ wifi_active' = isconnected(wlan)
    /\ UNCHANGED <<time_synced, b_log, schedVars, wifiVars>>

\* An hour goes by while the server runs.
BootClockHour ==
    /\ b_pc = "serving"
    /\ utc_hour' = (utc_hour + 1) % 24
    /\ UNCHANGED <<cfg_start, cfg_end, year, month, day, sched>>
    /\ UNCHANGED <<wifiVars, bootVars>>

bootFrame == <<vars, serverVars, exchangeVars>>

\* A step of connect_wifi_robust, once called.
ConnectStep ==
    \/ GateWait
    \/ GateReady
    \/ GateTimeout
    \/ AttemptTop
    \/ Connect
    \/ WaitPoll
    \/ WaitEnd
    \/ AfterWait
    \/ Pause

BootNext ==
    \/ BootConnect /\ UNCHANGED schedVars /\ UNCHANGED bootFrame
    \/ ConnectStep /\ UNCHANGED <<schedVars, bootVars>> /\ UNCHANGED bootFrame
    \/ RadioEvent /\ UNCHANGED <<schedVars, bootVars>> /\ UNCHANGED bootFrame
    \/ BootConnected /\ UNCHANGED bootFrame
    \/ BootSync /\ UNCHANGED bootFrame
    \/ BootServe /\ UNCHANGED bootFrame
    \/ BootServed /\ UNCHANGED bootFrame
    \/ BootOutOfHours /\ UNCHANGED bootFrame
    \/ BootNotSynced /\ UNCHANGED bootFrame
    \/ BootClockHour /\ UNCHANGED bootFrame

\* ------------------------------------- claims on the connectivity manager
\* connect_wifi_robust has returned and has not been called again.
ConnectReturned == w_pc = "idle" /\ w_result # "none"

\* C13: once a poll reads the wrong-password status on a platform that
\* defines it, connect_wifi_robust has returned False with no wlan.connect
\* call and no pause since; once a poll reads the no-AP status on a platform
\* that defines it, the polling of that attempt is over, and the call gives
\* up only when no attempt remains; on a platform that defines neither, a
\* polling loop ends only when the radio is connected or the countdown is
\* at zero.
C13_StatusHandling ==
    /\ [](/\ w_log.wp.seen =>
                /\ ConnectReturned
                /\ w_result = "False"
                /\ w_log.connects = w_log.wp.connects
                /\ w_log.pauses = w_log.wp.pauses
          /\ w_log.noap_now => w_pc # "wait"
          /\ (w_log.noap_seen /\ ConnectReturned /\ w_result = "False"
                 /\ ~w_log.wp.seen) =>
                w_log.attempts = WIFI_CONNECT_RETRIES)
    /\ [][(/\ ~network.STAT_WRONG_PASSWORD
           /\ ~network.STAT_NO_AP_FOUND
           /\ w_pc = "wait"
           /\ w_pc' # "wait") =>
              /\ w_pc' = "after_wait"
              /\ isconnected(wlan) \/ timeout = 0]_allVars

\* The network was not found in one attempt, and the password was refused
\* in a later one, before the attempts were used up.
C13_Witness ==
    /\ ConnectReturned
    /\ w_log.wp.seen
    /\ w_log.noap_seen
    /\ w_log.attempts > 1
    /\ w_log.attempts < WIFI_CONNECT_RETRIES

\* C14: a call of connect_wifi_robust calls wlan.connect at most
\* WIFI_CONNECT_RETRIES times, each followed by at most WIFI_CONNECT_TIMEOUT
\* polls; if the readiness gate times out it returns False without calling
\* wlan.connect; it returns True only on seeing the radio connected; when
\* the last attempt has failed it returns False.
C14_BoundedAttempts ==
    /\ [](/\ w_log.connects <= WIFI_CONNECT_RETRIES
          /\ w_log.polls <= WIFI_CONNECT_TIMEOUT
          /\ w_log.reason = "gate" => (w_result = "False" /\ w_log.connects = 0)
          /\ w_log.reason = "exhausted" =>
                (w_result = "False" /\ w_log.attempts = WIFI_CONNECT_RETRIES))
    /\ [][/\ (w_pc = "gate" /\ w_elapsed >= max_wait /\ w_pc' # "gate") =>
                (w_pc' = "idle" /\ w_result' = "False" /\ w_log'.connects = 0)
          /\ (w_result # "True" /\ w_result' = "True") => isconnected(wlan)
          /\ (w_pc = "pause" /\ attempt = WIFI_CONNECT_RETRIES - 1
                 /\ w_pc' # "pause") =>
                (w_pc' = "idle" /\ w_result' = "False")]_allVars

\* Every attempt was made and polled to the end of its countdown.
C14_Witness ==
    /\ ConnectReturned
    /\ w_log.reason = "exhausted"
    /\ w_log.connects = WIFI_CONNECT_RETRIES
    /\ w_log.polls = WIFI_CONNECT_TIMEOUT

\* C15: after disconnect_wifi the radio is not connected and the interface
\* is down, whatever they were before; calling it again changes nothing.
C15_DisconnectIdempotent ==
    w_last = "disconnect" =>
        /\ ~isconnected(wlan)
        /\ ~wlan.active
        /\ disconnect_wifi(wlan) = wlan
        /\ (~w_before.active /\ ~isconnected(w_before)) => wlan = w_before

\* disconnect_wifi was called with the radio connected.
C15_Witness ==
    /\ w_last = "disconnect"
    /\ isconnected(w_before)

\* ------------------------------------------------ claims on the web server
Serving == s_pc # "stopped"

\* The round of the loop is over: its finally clause has run.
RoundOver == s_pc \in {"top", "stopped"}

\* C16: the serving loop goes on only while the radio is connected and the
\* hour is in the window: it does not begin a second round in a row with
\* the radio not connected, nor with the hour out of the window.
C16_StopsWithoutWifi ==
    /\ s_log.lost <= 1
    /\ s_log.after_end <= 1

C18_MatchedRouteAnswered ==
    (RoundOver /\ s_conn.route \in MatchedRoutes /\ s_conn.fault = "none") =>
        s_conn.responded

\* C19: after a round in which the receive, the decoding, the handler or
\* the send failed, the client socket is closed; and the finally clause of
\* such a round, run in the window, leads to the next round.
C19_FaultAbandonsOneConnection ==
    /\ []((RoundOver /\ s_conn.accepted) =>
              (s_conn.closed /\ s_cl = "None" /\ s_log.open = 0))
    /\ [][(s_pc = "finally" /\ s_conn.fault # "none" /\ InWindow /\ s_pc' # s_pc) =>
              (s_pc' = "top" /\ s_cl' = "None" /\ s_conn'.closed)]_allVars

\* The request could not be decoded; the loop is about to accept again.
C19_Witness ==
    /\ s_pc = "top"
    /\ InWindow
    /\ s_conn.fault = "decode"
    /\ s_conn.closed

\* C27: the server has at most one client socket open at any time, and
\* none when it is about to accept or has left the loop: every accepted
\* socket is closed before the next accept and before the loop ends,
\* whether the round ended normally, on a receive error or on an exception
\* of the handler.
C27_OneClientAtATime ==
    /\ s_log.open \in {0, 1}
    /\ s_log.open = 1 <=> s_cl = "open"
    /\ s_pc \in {"top", "accept", "stopped"} => (s_log.open = 0 /\ s_cl = "None")

\* A client was accepted, the receive failed, and the socket is closed
\* before the next accept.
C27_Witness ==
    /\ s_pc = "top"
    /\ s_conn.accepted
    /\ s_conn.fault = "recv"
    /\ s_log.open = 0
    /\ s_cl = "None"

\* ------------------------------------------------------ claims on the boot
\* C20: when the monitoring loop begins, whatever connect_wifi_robust and
\* sync_time returned at boot: either the clock was set, the hour was in
\* the window and the server was entered, or the radio has been powered
\* down.
C20_RadioDownAfterBoot ==
    b_pc = "steady" => (b_log.served \/ (~wlan.active /\ ~isconnected(wlan)))

\* ------------------------------------------------- the order of one exchange
\* C25 as stated: within one exchange the command is transmitted before
\* the buffer is flushed and before the read loop: whenever uart.read()
\* has flushed or uart.readline() has read, the write has been done.
C25_TransmitFirst ==
    (flushed \/ consumed # <<>>) => bytes_written # -1

\* C25: within one exchange the flush comes first, then the transmit of
\* the command, then the read loop: while the flush runs nothing has been
\* written or read, the read loop runs only after the whole command went
\* out, and a line is read only after that.
C25_FlushThenTransmitThenRead ==
    /\ pc = "flush" => (bytes_written = -1 /\ tx = <<>> /\ consumed = <<>>)
    /\ pc = "write" => (bytes_written = -1 /\ tx = <<>> /\ consumed = <<>>)
    /\ pc = "read" => (bytes_written = Len(encode(cmd_clean)) /\ tx = encode(cmd_clean))
    /\ consumed # <<>> => tx = encode(cmd_clean)

\* The flush discarded something, the command went out and a line was read.
C25_Witness ==
    /\ pc = "read"
    /\ flushed
    /\ tx = encode(cmd_clean)
    /\ consumed # <<>>

\* C28: in every result send_command returns, success is false exactly
\* when error is set: a success has error None, and every failure carries
\* an error, a message of send_command or the '<<ERROR' line.
C28_FailureIffError ==
    pc = "done" =>
        /\ result.success <=> result.error = NoError
        /\ ~result.success => result.error.kind \in {"msg", "line"}

\* A call that failed on the last of its paths: the timeout, with lines read.
C28_Witness ==
    /\ pc = "done"
    /\ ~result.success
    /\ result.error = Msg("Response incomplete (timeout)")
    /\ result.response # <<>>

\* ================================================== the link under load
\* The same send_command, with a remote controller that streams: it sends
\* telemetry and noise at up to MaxEmit lines a second for as long as it
\* likes, and one completion line for each command it received, whenever
\* it gets to it.  The receive buffer (rxbuf=1024) holds RxLines lines and
\* drops what arrives when it is full.
StreamLines == {L_TELEM, L_BAD}

\* The remote sends a line of its stream.
RemoteStream ==
    /\ emitted < MaxEmit
    /\ emitted' = emitted + 1
    /\ \E raw \in StreamLines :
           rxbuf' = IF Len(rxbuf) < RxLines
                    THEN Append(rxbuf, [raw |-> raw, stale |-> FALSE, late |-> FALSE])
                    ELSE rxbuf
    /\ UNCHANGED <<pc, route, cmd_clean, tx, elapsed, response_lines, found_completion,
                   result, reply, consumed, flushed, staleDropped, bytes_written>>
    /\ UNCHANGED owed

\* The remote completes a command it received: the oldest one first.  late
\* (history) marks the answer to a command of an earlier call.
RemoteAnswer ==
    /\ owed.old \/ owed.cur
    /\ Len(rxbuf) < RxLines
    /\ rxbuf' = Append(rxbuf, [raw |-> L_OK, stale |-> FALSE, late |-> owed.old])
    /\ owed' = IF owed.old THEN [owed EXCEPT !.old = FALSE]
                           ELSE [owed EXCEPT !.cur = FALSE]
    /\ UNCHANGED <<pc, route, cmd_clean, tx, elapsed, response_lines, found_completion,
                   result, reply, emitted, consumed, flushed, staleDropped, bytes_written>>

\* A second passes: the remote may send its next lines, and time.time()
\* moves on for the read loop.
Second ==
    /\ emitted' = 0
    /\ elapsed' = IF pc = "read" /\ elapsed < Timeout THEN elapsed + 1 ELSE elapsed
    /\ UNCHANGED <<pc, route, cmd_clean, rxbuf, tx, response_lines, found_completion,
                   result, reply, consumed, flushed, staleDropped, bytes_written>>
    /\ UNCHANGED owed

\* The command of the call before, if still unanswered, becomes an old one.
CallBegins == owed' = [old |-> owed.old \/ owed.cur, cur |-> FALSE]

\* A command written whole reaches the remote, which owes its answer.
CommandReceived ==
    owed' = IF bytes_written' = Len(encode(cmd_clean)) THEN [owed EXCEPT !.cur = TRUE]
                                                       ELSE owed

exchangeFrame == <<schedVars, wifiVars, serverVars, bootVars>>

\* A step of send_command.
ExchangeStep ==
    \/ SendCommand /\ CallBegins /\ UNCHANGED exchangeFrame
    \/ FlushRead /\ UNCHANGED owed /\ UNCHANGED exchangeFrame
    \/ FlushDone /\ UNCHANGED owed /\ UNCHANGED exchangeFrame
    \/ UartWrite /\ CommandReceived /\ UNCHANGED exchangeFrame
    \/ ReadLine /\ UNCHANGED owed /\ UNCHANGED exchangeFrame
    \/ ReadError /\ UNCHANGED owed /\ UNCHANGED exchangeFrame
    \/ ReadTimeout /\ UNCHANGED owed /\ UNCHANGED exchangeFrame
    \/ UartException /\ UNCHANGED owed /\ UNCHANGED exchangeFrame

TimeStep == Second /\ UNCHANGED exchangeFrame

ExchangeNext ==
    \/ ExchangeStep
    \/ RemoteStream /\ UNCHANGED exchangeFrame
    \/ RemoteAnswer /\ UNCHANGED exchangeFrame
    \/ TimeStep

\* C24: every call of send_command ends and returns a result, whatever
\* the remote does: once begun, the call reaches its return.
C24_CallReturns == (pc \in {"flush", "write", "read"}) ~> (pc = "done")

\* C26: no line the remote sent in answer to the command of an earlier
\* call is among the lines a later call read as its own response.
C26_NoLateAnswerRead ==
    \A i \in 1..Len(consumed) : ~consumed[i].late

\* ================================================= main, boot and the loop
\* main from its first statement on: the boot sequence and the monitoring
\* loop.  connect_wifi_robust is taken here by what it returns and how it
\* leaves the radio, sync_time by what it returns.

\* connect_wifi_robust(): True with the radio connected, or False; the
\* interface is up either way, wait_for_wifi_ready has activated it.
connect_returns ==
    {[ok |-> TRUE, wlan |-> [active |-> TRUE, status |-> "got_ip"]]}
    \cup {[ok |-> FALSE, wlan |-> [active |-> TRUE, status |-> st]] :
              st \in Statuses \ {"got_ip"}}

\* sync_time(): ntptime.settime() needs the network.
sync_time_returns(w) == IF isconnected(w) THEN {TRUE, FALSE} ELSE {FALSE}

\* What a tick decided: whether the clock was set and the hour in the
\* window when the schedule was looked at, and whether connect_wifi_robust
\* was called for the server.
NoTick == [in_window |-> FALSE, connect |-> FALSE]

\* History of main: where the last return of the server stands, whether
\* disconnect_wifi was called since the radio last connected, whole hours
\* since last_time_sync (since the first sync, before the loop), whole
\* hours since a resync was last tried, and the last tick.
NewMainLog == [after_server |-> "none", disconnected |-> FALSE, age |-> 0,
               untried |-> 0, tick |-> NoTick]

\* main begins after a reset: the radio is down, the RTC shows any hour.
MainInit ==
    /\ b_pc = "boot"
    /\ time_synced = FALSE
    /\ wifi_active = FALSE
    /\ b_log = NewMainLog
    /\ wlan = RadioOff
    /\ WifiCallIdle
    /\ ClockInit

\* What main leaves alone wherever it is.
mainFrame == <<vars, serverVars, exchangeVars, cfg_start, cfg_end, year, month, day,
               sched, network, w_pc, attempt, timeout, w_elapsed, w_result, w_log,
               w_last, w_before>>

\* The initial time sync: connect_wifi_robust(), then sync_time().
MainBootSync ==
    /\ b_pc = "boot"
    /\ b_pc' = "decide"
    /\ \E c \in connect_returns :
          /\ wlan' = c.wlan
          /\ \E synced \in IF c.ok THEN sync_time_returns(c.wlan) ELSE {FALSE} :
                /\ time_synced' = synced
                /\ utc_hour' \in IF synced THEN 0..23 ELSE {utc_hour}
    /\ UNCHANGED <<wifi_active, b_log>>

\* if time_synced and is_wifi_hours(): web_server_scheduled() is entered.
MainBootServe ==
    /\ b_pc = "decide"
    /\ time_synced /\ InWindow
    /\ b_pc' = "serving_boot"
    /\ UNCHANGED <<time_synced, wifi_active, b_log, wlan, utc_hour>>

\* elif time_synced: disconnect_wifi(); then wifi_active = wlan.isconnected().
MainBootIdle ==
    /\ b_pc = "decide"
    /\ time_synced /\ ~InWindow
    /\ wlan' = disconnect_wifi(wlan)
    /\ wifi_active' = isconnected(disconnect_wifi(wlan))
    /\ b_log' = [b_log EXCEPT !.disconnected = TRUE, !.age = 0, !.untried = 0]
    /\ b_pc' = "steady"
    /\ UNCHANGED <<time_synced, utc_hour>>

\* Neither branch: wifi_active = wlan.isconnected() with the radio as it is.
MainBootUnsynced ==
    /\ b_pc = "decide"
    /\ ~time_synced
    /\ wifi_active' = isconnected(wlan)
    /\ b_log' = [b_log EXCEPT !.age = 0, !.untried = 0]
    /\ b_pc' = "steady"
    /\ UNCHANGED <<time_synced, wlan, utc_hour>>

\* web_server_scheduled() returns, the window being over, or raises an
\* Exception, which main catches.
ServerReturns ==
    /\ b_pc \in {"serving_boot", "serving"}
    /\ b_pc' = IF b_pc = "serving_boot" THEN "served_boot" ELSE "served"
    /\ b_log' = [b_log EXCEPT !.after_server = "returned"]
    /\ UNCHANGED <<time_synced, wifi_active, wlan, utc_hour>>

\* KeyboardInterrupt in the server: at boot it is raised again and the
\* handler around main() calls disconnect_wifi(); in the loop it breaks
\* out of the loop and main returns.
ServerInterrupted ==
    /\ b_pc \in {"serving_boot", "serving"}
    /\ b_pc' = "halted"
    /\ wlan' = IF b_pc = "serving_boot" THEN disconnect_wifi(wlan) ELSE wlan
    /\ UNCHANGED <<time_synced, wifi_active, b_log, utc_hour>>

\* The boot sequence going on after the server without disconnect_wifi().
MainBootServed_no_disconnect ==
    /\ b_pc = "served_boot"
    /\ wifi_active' = isconnected(wlan)
    /\ b_log' = [b_log EXCEPT !.after_server = "disconnected", !.age = 0, !.untried = 0]
    /\ b_pc' = "steady"
    /\ UNCHANGED <<time_synced, utc_hour, wlan>>

\* After the server at boot: disconnect_wifi(), and the loop's
\* wifi_active = wlan.isconnected().
MainBootServed ==
    /\ b_pc = "served_boot"
    /\ wlan' = disconnect_wifi(wlan)
    /\ wifi_active' = isconnected(disconnect_wifi(wlan))
    /\ b_log' = [b_log EXCEPT !.after_server = "disconnected", !.disconnected = TRUE,
                              !.age = 0, !.untried = 0]
    /\ b_pc' = "steady"
    /\ UNCHANGED <<time_synced, utc_hour>>

\* After the server in the loop: disconnect_wifi(); wifi_active = False.
MainServed ==
    /\ b_pc = "served"
    /\ wlan' = disconnect_wifi(wlan)
    /\ wifi_active' = FALSE
    /\ b_log' = [b_log EXCEPT !.after_server = "disconnected", !.disconnected = TRUE]
    /\ b_pc' = "loop_end"
    /\ UNCHANGED <<time_synced, utc_hour>>

\* time_synced and (current_time - last_time_sync >= time_sync_interval)
resync_due == time_synced /\ b_log.age >= 1

\* The top of the loop: the periodic resync, if it is due.
MainResync ==
    /\ b_pc = "steady"
    /\ b_pc' = "check"
    /\ IF ~resync_due
       THEN UNCHANGED <<wlan, b_log>>
       ELSE IF ~wifi_active
       THEN \E c \in connect_returns :
               IF c.ok
               THEN /\ wlan' = disconnect_wifi(c.wlan)
                    /\ b_log' = [b_log EXCEPT !.age = 0, !.untried = 0,
                                              !.disconnected = TRUE,
                                              !.after_server = "none"]
               ELSE /\ wlan' = c.wlan
                    /\ b_log' = [b_log EXCEPT !.untried = 0, !.after_server = "none"]
       ELSE /\ wlan' = wlan
            /\ b_log' = [b_log EXCEPT !.age = 0, !.untried = 0]
    /\ UNCHANGED <<time_synced, wifi_active, utc_hour>>

\* current_time - last_check >= check_interval: a tick, or not yet.
MainTick ==
    /\ b_pc = "check"
    /\ \E due \in BOOLEAN : b_pc' = IF due THEN "retry" ELSE "loop_end"
    /\ b_log' = [b_log EXCEPT !.tick = NoTick]
    /\ UNCHANGED <<time_synced, wifi_active, wlan, utc_hour>>

\* if not time_synced: connect, sync_time, disconnect_wifi.
MainRetry ==
    /\ b_pc = "retry"
    /\ b_pc' = "schedule"
    /\ IF time_synced
       THEN UNCHANGED <<time_synced, wlan, utc_hour, b_log>>
       ELSE \E c \in connect_returns :
               IF c.ok
               THEN /\ \E synced \in sync_time_returns(c.wlan) :
                          /\ time_synced' = synced
                          /\ utc_hour' \in IF synced THEN 0..23 ELSE {utc_hour}
                    /\ wlan' = disconnect_wifi(c.wlan)
                    /\ b_log' = [b_log EXCEPT !.disconnected = TRUE,
                                              !.after_server = "none"]
               ELSE /\ wlan' = c.wlan
                    /\ b_log' = [b_log EXCEPT !.after_server = "none"]
                    /\ UNCHANGED <<time_synced, utc_hour>>
    /\ UNCHANGED wifi_active

\* if time_synced: the schedule decision of the tick.
MainSchedule ==
    /\ b_pc = "schedule"
    /\ LET should_be_active == InWindow
       IN  IF ~time_synced
           THEN /\ b_pc' = "loop_end"
                /\ UNCHANGED <<wifi_active, wlan, b_log>>
           ELSE IF should_be_active /\ ~wifi_active
           THEN \E c \in connect_returns :
                   /\ wlan' = c.wlan
                   /\ wifi_active' = c.ok
                   /\ b_pc' = IF c.ok THEN "serving" ELSE "loop_end"
                   /\ b_log' = [b_log EXCEPT
                                   !.tick = [in_window |-> TRUE, connect |-> TRUE],
                                   !.disconnected = IF c.ok THEN FALSE ELSE @,
                                   !.after_server = "none"]
           ELSE IF ~should_be_active /\ wifi_active
           THEN /\ wlan' = disconnect_wifi(wlan)
                /\ wifi_active' = FALSE
                /\ b_pc' = "loop_end"
                /\ b_log' = [b_log EXCEPT !.disconnected = TRUE]
           ELSE /\ b_pc' = "loop_end"
                /\ b_log' = [b_log EXCEPT
                                !.tick = [in_window |-> should_be_active,
                                          connect |-> FALSE]]
                /\ UNCHANGED <<wifi_active, wlan>>
    /\ UNCHANGED <<time_synced, utc_hour>>

\* if not wifi_active: beat()
MainLoopEnd ==
    /\ b_pc = "loop_end"
    /\ b_pc' = IF ~wifi_active THEN "beat" ELSE "steady"
    /\ UNCHANGED <<time_synced, wifi_active, b_log, wlan, utc_hour>>

\* beat() returns: the next iteration.
MainBeat ==
    /\ b_pc = "beat"
    /\ b_pc' = "steady"
    /\ UNCHANGED <<time_synced, wifi_active, b_log, wlan, utc_hour>>

\* An hour goes by.  The loop turns within seconds, so a resync that is due
\* is tried before the next hour is over; the server, once the window is
\* over, returns within a round.
MainClockHour ==
    /\ \/ b_pc = "steady" /\ ~(resync_due /\ b_log.untried >= 1)
       \/ b_pc \in {"serving_boot", "serving"} /\ InWindow
    /\ utc_hour' = (utc_hour + 1) % 24
    /\ b_log' = [b_log EXCEPT !.age = Saturating(@), !.untried = Saturating(@)]
    /\ UNCHANGED <<b_pc, time_synced, wifi_active, wlan>>

\* The radio on its own.
MainRadioEvent ==
    /\ b_pc # "halted"
    /\ RadioEvent
    /\ UNCHANGED <<cfg_start, cfg_end, year, month, day, utc_hour, sched>>
    /\ UNCHANGED <<vars, serverVars, exchangeVars, bootVars>>

MainNext ==
    \/ MainBootSync /\ UNCHANGED mainFrame
    \/ MainBootServe /\ UNCHANGED mainFrame
    \/ MainBootIdle /\ UNCHANGED mainFrame
    \/ MainBootUnsynced /\ UNCHANGED mainFrame
    \/ ServerReturns /\ UNCHANGED mainFrame
    \/ ServerInterrupted /\ UNCHANGED mainFrame
    \/ MainBootServed /\ UNCHANGED mainFrame
    \/ MainServed /\ UNCHANGED mainFrame
    \/ MainResync /\ UNCHANGED mainFrame
    \/ MainTick /\ UNCHANGED mainFrame
    \/ MainRetry /\ UNCHANGED mainFrame
    \/ MainSchedule /\ UNCHANGED mainFrame
    \/ MainLoopEnd /\ UNCHANGED mainFrame
    \/ MainBeat /\ UNCHANGED mainFrame
    \/ MainClockHour /\ UNCHANGED mainFrame
    \/ MainRadioEvent

\* ------------------------------------------------------- claims on main
\* C21: at every tick at which the clock is set and the hour is in the
\* window while the server does not run, connect_wifi_robust is called
\* for the server.
C21_TickInWindowConnects ==
    b_log.tick.in_window => b_log.tick.connect

\* C22: when web_server_scheduled has returned, at boot or in the loop,
\* main calls disconnect_wifi before it decides anything else, and from
\* then until the next connection attempt the radio is down and
\* wifi_active is false.
C22_DisconnectAfterServer ==
    /\ b_log.after_server = "returned" => b_pc \in {"served_boot", "served"}
    /\ b_log.after_server = "disconnected" =>
           (~wlan.active /\ ~isconnected(wlan) /\ ~wifi_active)

\* The server returned, the radio was powered down, and the loop has come
\* to its heartbeat.
C22_Witness ==
    /\ b_log.after_server = "disconnected"
    /\ b_pc = "beat"
    /\ ~wlan.active
    /\ b_log.age = 0

\* C23: once the clock is set, no hour after the resync interval has
\* elapsed goes by without a resync being tried, wherever main is.
C23_ResyncTriedEveryHour ==
    time_synced => b_log.untried <= 1

\* C29: at the top of every iteration of the loop, wifi_active is true
\* only if disconnect_wifi has not been called since the radio last
\* connected.
C29_FlagFollowsDisconnect ==
    b_pc = "steady" => (wifi_active => ~b_log.disconnected)

\* C30: whenever main is in beat(), the radio is powered down.
C30_HeartbeatWithRadioDown ==
    b_pc = "beat" => ~wlan.active

\* ================================================================ specifications
\* Each specification starts its own part and leaves the others at rest.
SerialSpecInit == SerialInit /\ SchedParked /\ WifiParked /\ ServerParked /\ BootParked

SerialSpec == SerialSpecInit /\ [][SerialNext]_allVars

SchedSpecInit == SchedInit /\ SerialInit /\ WifiParked /\ ServerParked /\ BootParked

SchedSpec == SchedSpecInit /\ [][SchedNext]_allVars

WifiSpecInit == WifiInit /\ SerialInit /\ SchedParked /\ ServerParked /\ BootParked

WifiSpec == WifiSpecInit /\ [][WifiNext]_allVars

ServerSpecInit == ServerInit /\ SerialInit /\ ClockInit /\ BootParked

ServerSpec == ServerSpecInit /\ [][ServerNext]_allVars

BootSpecInit == BootInit /\ WifiInit /\ SchedParked /\ SerialInit /\ ServerParked

BootSpec == BootSpecInit /\ [][BootNext]_allVars

MainSpecInit == MainInit /\ SerialInit /\ ServerParked

MainSpec == MainSpecInit /\ [][MainNext]_allVars

ExchangeSpecInit == SerialInit /\ SchedParked /\ WifiParked /\ ServerParked /\ BootParked

ExchangeSpec == ExchangeSpecInit /\ [][ExchangeNext]_allVars

\* send_command runs on: the interpreter executes its next statement, and
\* time passes.
FairExchangeSpec == ExchangeSpec /\ WF_allVars(ExchangeStep) /\ WF_allVars(TimeStep)

\* Every step of the server ends by itself: the sockets have timeouts of
\* 10 s and send_command gives up after its own timeout.
FairServerSpec == ServerSpec /\ WF_allVars(ServerStep)

====
